---------------------------- MODULE Spec2Model ----------------------------
(***************************************************************************)
(* A model of the sight-detection engine of trainmap-db.                   *)
(*                                                                         *)
(* Units.  Coordinates are integers on a grid whose unit is 0.2 km (the    *)
(* grid lies at the equator, where one unit of latitude and one unit of    *)
(* longitude are the same length, so the haversine distance of the source  *)
(* is the planar distance of the grid).  Times are integers whose unit is  *)
(* five minutes; the zero time.Time{} of the source is NoTime.  Distances  *)
(* are compared by their squares, angles by exact integer inequalities.    *)
(***************************************************************************)
EXTENDS Integers, Sequences, FiniteSets, TLC

(***************************************************************************)
(* Bounds of the model.                                                    *)
(***************************************************************************)
MaxStops == 3        \* stop times of a generated trip
NumDates == 2        \* service dates 0 .. NumDates-1
MaxLate  == 2        \* lateness offsets 0 .. MaxLate of the reference trip
MaxWorkList == 12    \* segments in the work list of a decomposition

(***************************************************************************)
(* Program constants, in the units above.                                  *)
(***************************************************************************)
CloseHeavyRailStationThreshold == 3   \* 0.6 km
CloseTramStationThreshold      == 1   \* 0.2 km
DIST_THRESHOLD                 == 4   \* 0.8 km
DatabaseOutOfBoundsGrace       == 10  \* 0.018 degrees, about 2 km
DayLen                         == 288 \* 24 h
NoTime                         == -1  \* time.Time{}: IsZero(), before every other time
MaxDuration == 1000000                \* time.Duration saturates: a Sub that overflows

RouteTypeTram      == "tram"
RouteTypeSubway    == "subway"
RouteTypeHeavyRail == "heavyRail"
RouteTypeBus       == "bus"

isRailType(r) == r = RouteTypeTram \/ r = RouteTypeHeavyRail

(***************************************************************************)
(* Generic helpers.                                                        *)
(***************************************************************************)
Abs(x) == IF x < 0 THEN -x ELSE x
Min2(a, b) == IF a < b THEN a ELSE b
Max2(a, b) == IF a > b THEN a ELSE b
Range(s) == { s[i] : i \in DOMAIN s }
Last(s) == s[Len(s)]

RECURSIVE SumSeq(_)
SumSeq(s) == IF s = <<>> THEN 0 ELSE Head(s) + SumSeq(Tail(s))

\* Go's integer division truncates toward zero.
DivTrunc(a, b) ==
    IF b = 0 THEN 0
    ELSE IF (a >= 0) = (b > 0) THEN Abs(a) \div Abs(b) ELSE -(Abs(a) \div Abs(b))

\* All orderings of a finite set, as sequences.
Perms(S) ==
    { f \in [1..Cardinality(S) -> S] : \A i, j \in 1..Cardinality(S) : i # j => f[i] # f[j] }

(***************************************************************************)
(* Geometry.                                                               *)
(***************************************************************************)
Pt(lat, lon) == [Lat |-> lat, Lon |-> lon]

GetPoint(stop) == Pt(stop.StopLat, stop.StopLon)

\* getDistTo, squared (grid units squared).
DistSq(p, q) == (p.Lat - q.Lat) * (p.Lat - q.Lat) + (p.Lon - q.Lon) * (p.Lon - q.Lon)

\* getDistTo(p, q) < threshold
DistLess(p, q, threshold) == DistSq(p, q) < threshold * threshold

\* The direction GetBearingFrom measures, as a vector: atan2(0, 0) is 0, the
\* bearing of the vector (lat 0, lon 1).
BearingVec(pt, obsPt) ==
    LET dLat == pt.Lat - obsPt.Lat
        dLon == pt.Lon - obsPt.Lon
    IN IF dLat = 0 /\ dLon = 0 THEN Pt(0, 1) ELSE Pt(dLat, dLon)

Dot(u, v) == u.Lat * v.Lat + u.Lon * v.Lon
NormSq(u) == Dot(u, u)

\* isDiffLessThan(b, other, 5*pi/6): the shortest-arc difference of two
\* bearings is the angle between their vectors; it is below 150 degrees
\* iff cos > -sqrt(3)/2.
DiffLessThanMax(u, v) ==
    ~ (Dot(u, v) < 0 /\ 4 * Dot(u, v) * Dot(u, v) >= 3 * NormSq(u) * NormSq(v))

\* isDiffLessThan(b, other, 2*pi/6): below 60 degrees iff cos > 1/2.
DiffLessThanMin(u, v) ==
    Dot(u, v) > 0 /\ 4 * Dot(u, v) * Dot(u, v) > NormSq(u) * NormSq(v)

(***************************************************************************)
(* Times.                                                                  *)
(***************************************************************************)
IsZero(t) == t = NoTime

\* time.Time.Sub: the difference, saturated when one side is the zero time
\* (year 1, more than the 292 years a Duration holds away from 1970).
TimeSub(a, b) ==
    IF IsZero(a) /\ IsZero(b) THEN 0
    ELSE IF IsZero(a) THEN -MaxDuration
    ELSE IF IsZero(b) THEN MaxDuration
    ELSE a - b

\* time.Time.Before
Before(a, b) == a < b


(***************************************************************************)
(* Stops, stop times, trips.                                               *)
(***************************************************************************)
Stop(id, lat, lon) == [StopId |-> id, StopLat |-> lat, StopLon |-> lon]

getFeededStopId(stop) == stop.StopId

StopTime(stop, arr, dep, seq) ==
    [Stop |-> stop, ArrivalTime |-> arr, DepartureTime |-> dep, StopSequence |-> seq]

Trip(feed, id, service, routeType, stopTimes) ==
    [FeedId |-> feed, TripId |-> id, ServiceId |-> service,
     RouteType |-> routeType, StopTimes |-> stopTimes]

FeededService(feed, service) == [FeedId |-> feed, ServiceId |-> service]

\* sort.Slice(stopTimes, DepartureTime.Before): for the short slices of a trip
\* Go sorts by insertion, an element moving left while it is Before its
\* left neighbour.
RECURSIVE InsertByDeparture(_, _)
InsertByDeparture(s, x) ==
    IF s = <<>> THEN <<x>>
    ELSE IF Before(x.DepartureTime, Last(s).DepartureTime)
         THEN Append(InsertByDeparture(SubSeq(s, 1, Len(s) - 1), x), Last(s))
         ELSE Append(s, x)

RECURSIVE SortByDeparture(_)
SortByDeparture(s) ==
    IF s = <<>> THEN <<>>
    ELSE InsertByDeparture(SortByDeparture(SubSeq(s, 1, Len(s) - 1)), Last(s))

Segment(source, target, travelTime) ==
    [source |-> source, target |-> target, travelTime |-> travelTime]

\* Trip.getSegments.  The sort is in place on the array the caller's
\* trip.StopTimes shares, so the caller's stop times are reordered too:
\* stopTimes is that array after the call.  panics: a negative travel time.
getSegments(trip) ==
    LET stopTimes == SortByDeparture(trip.StopTimes)
        segs == [i \in 1..(Len(stopTimes) - 1) |->
                    Segment(stopTimes[i].Stop, stopTimes[i + 1].Stop,
                            TimeSub(stopTimes[i + 1].ArrivalTime, stopTimes[i].DepartureTime))]
    IN [stopTimes |-> stopTimes,
        segments  |-> segs,
        panics    |-> \E i \in DOMAIN segs : segs[i].travelTime < 0]

\* segment.getDistance, squared
getDistanceSq(seg) == DistSq(GetPoint(seg.source), GetPoint(seg.target))

(***************************************************************************)
(* tripMap: the deduplicated segments, source id -> target id -> time.      *)
(* Modelled as a set of segments, at most one per (source, target).        *)
(***************************************************************************)
containsDirectional(tm, seg) ==
    \E e \in tm : e.source.StopId = seg.source.StopId /\ e.target.StopId = seg.target.StopId

directionalTime(tm, seg) ==
    (CHOOSE e \in tm : e.source.StopId = seg.source.StopId
                       /\ e.target.StopId = seg.target.StopId).travelTime

reversed(seg) == Segment(seg.target, seg.source, seg.travelTime)

containsUndirectional(tm, seg) ==
    containsDirectional(tm, seg) \/ containsDirectional(tm, reversed(seg))

undirectionalTime(tm, seg) ==
    IF containsDirectional(tm, seg) THEN directionalTime(tm, seg)
    ELSE directionalTime(tm, reversed(seg))

\* tm with the entry (source, target) set to the segment's travel time
setEntry(tm, seg) ==
    { e \in tm : ~ (e.source.StopId = seg.source.StopId
                    /\ e.target.StopId = seg.target.StopId) } \cup {seg}

updateSegment(tm, seg) ==
    LET exists == containsUndirectional(tm, seg)
        existsInThisDirection == containsDirectional(tm, seg)
        shouldAdd == IF exists THEN undirectionalTime(tm, seg) < seg.travelTime ELSE TRUE
    IN IF ~ shouldAdd THEN tm
       ELSE IF exists /\ ~ existsInThisDirection THEN setEntry(tm, reversed(seg))
       ELSE setEntry(tm, seg)

RECURSIVE updateSegments(_, _)
updateSegments(tm, segs) ==
    IF segs = <<>> THEN tm ELSE updateSegments(updateSegment(tm, Head(segs)), Tail(segs))

\* getAllSegments, then sort.Slice by distance: the map is iterated in an
\* arbitrary order and the sort keeps no order among equal distances, so
\* every distance-sorted ordering of the entries is a possible result.
SortedByDistance(tm) ==
    { f \in Perms(tm) :
        \A i \in 1..(Len(f) - 1) : getDistanceSq(f[i]) <= getDistanceSq(f[i + 1]) }


(***************************************************************************)
(* NetworkMap.  ParentStops: the parent stops; CityAssociations: stop id   *)
(* -> parent id; Vertices: the hashes of the graph's vertices; Edges: the  *)
(* edges of the undirected weighted graph, each with its two ends (one for *)
(* a self-loop), its weight and its composition (<<>> is nil, an           *)
(* elementary edge).                                                       *)
(***************************************************************************)
NewNetworkMap == [ParentStops |-> {}, CityAssociations |-> <<>>, Vertices |-> {}, Edges |-> {}]

Contains(nm, stop) == stop.StopId \in DOMAIN nm.CityAssociations

\* nm.ParentStops[fsid]
ParentStop(nm, fsid) == CHOOSE p \in nm.ParentStops : p.StopId = fsid

\* An EnsureCloseStopInGraph that would not look for a close parent stop
EnsureCloseStopInGraphAlwaysNew(nm, stop) ==
    IF Contains(nm, stop)
    THEN { [nm |-> nm, fsid |-> nm.CityAssociations[nm.CityAssociations[stop.StopId]]] }
    ELSE { [nm |-> [nm EXCEPT !.Vertices = @ \cup {stop.StopId},
                              !.ParentStops = @ \cup {stop},
                              !.CityAssociations =
                                  [id \in DOMAIN @ \cup {stop.StopId} |->
                                      IF id = stop.StopId THEN stop.StopId ELSE @[id]]],
            fsid |-> stop.StopId] }

\* EnsureCloseStopInGraph: the possible outcomes [nm, fsid].  The parent
\* stops are a Go map, iterated in an arbitrary order: any parent closer
\* than DIST_THRESHOLD may be the one found.
EnsureCloseStopInGraph(nm, stop) ==
    LET close == { p \in nm.ParentStops :
                     DistLess(GetPoint(stop), GetPoint(p), DIST_THRESHOLD) }
        assoc(parentId) ==
            [id \in DOMAIN nm.CityAssociations \cup {stop.StopId} |->
                IF id = stop.StopId THEN parentId ELSE nm.CityAssociations[id]]
    IN IF Contains(nm, stop)
       THEN { [nm |-> nm,
               fsid |-> nm.CityAssociations[nm.CityAssociations[stop.StopId]]] }
       ELSE IF close # {}
       THEN { [nm |-> [nm EXCEPT !.CityAssociations = assoc(p.StopId)],
               fsid |-> p.StopId] : p \in close }
       ELSE { [nm |-> [nm EXCEPT !.Vertices = @ \cup {stop.StopId},
                                 !.ParentStops = @ \cup {stop},
                                 !.CityAssociations = assoc(stop.StopId)],
               fsid |-> stop.StopId] }

HasEdge(nm, a, b) == \E e \in nm.Edges : e.ends = {a, b}
\* nm.Graph.Edge(a, b): the graph is undirected, the edge is found either way
GraphEdge(nm, a, b) == CHOOSE e \in nm.Edges : e.ends = {a, b}

\* A setSegmentOnGraph that would add an edge whether or not the two stops
\* have one
setSegmentOnGraphAddOnly(nm, seg, composition) ==
    [nm EXCEPT !.Edges = @ \cup {[ends |-> {seg.source.StopId, seg.target.StopId},
                                  weight |-> seg.travelTime, data |-> composition]}]

\* A setSegmentOnGraph that would give an existing edge the weight of the
\* segment, whatever the weight it has
setSegmentOnGraphLastWeight(nm, seg, composition) ==
    LET a == seg.source.StopId
        b == seg.target.StopId
    IN [nm EXCEPT !.Edges = { e \in @ : e.ends # {a, b} }
               \cup {[ends |-> {a, b}, weight |-> seg.travelTime, data |-> composition]}]

\* setSegmentOnGraph: AddEdge, or on ErrEdgeAlreadyExists UpdateEdge with the
\* smaller weight and the composition given.
setSegmentOnGraph(nm, seg, composition) ==
    LET a == seg.source.StopId
        b == seg.target.StopId
        weight == seg.travelTime
        minWeight == IF weight < GraphEdge(nm, a, b).weight
                     THEN weight ELSE GraphEdge(nm, a, b).weight
    IN IF HasEdge(nm, a, b)
       THEN [nm EXCEPT !.Edges = (@ \ {GraphEdge(nm, a, b)})
                   \cup {[ends |-> {a, b}, weight |-> minWeight, data |-> composition]}]
       ELSE [nm EXCEPT !.Edges =
                   @ \cup {[ends |-> {a, b}, weight |-> weight, data |-> composition]}]

\* graph.ShortestPath is Dijkstra's algorithm: every vertex is queued, the
\* source with weight 0 and the others with an infinite one; the vertex of
\* least weight is taken (any of them when several have the least: the
\* queue is filled in map order) and each of its neighbours whose weight
\* the edge strictly lowers gets the new weight and the vertex as its best
\* predecessor.  weights and preds are functions on the vertices reached so
\* far.  The result: every function of best predecessors the run can end with.
RECURSIVE bestPredecessors(_, _, _, _)
bestPredecessors(nm, weights, preds, queue) ==
    IF queue = {} THEN {preds}
    ELSE LET reached == queue \cap DOMAIN weights
             least == IF reached = {} THEN queue
                      ELSE { v \in reached : \A w \in reached : weights[v] <= weights[w] }
         IN UNION {
              LET lowered == IF v \notin DOMAIN weights THEN {}
                             ELSE { w \in nm.Vertices :
                                      /\ HasEdge(nm, v, w)
                                      /\ w \in DOMAIN weights =>
                                           weights[v] + GraphEdge(nm, v, w).weight < weights[w] }
                  weights2 == [w \in DOMAIN weights \cup lowered |->
                                 IF w \in lowered THEN weights[v] + GraphEdge(nm, v, w).weight
                                 ELSE weights[w]]
                  preds2 == [w \in DOMAIN preds \cup lowered |->
                               IF w \in lowered THEN v ELSE preds[w]]
              IN bestPredecessors(nm, weights2, preds2, queue \ {v})
              : v \in least }

\* The path from source to target along the best predecessors; <<>> when
\* the target has none (ErrTargetNotReachable)
RECURSIVE pathTo(_, _, _)
pathTo(preds, source, current) ==
    IF current = source THEN <<source>>
    ELSE IF current \notin DOMAIN preds THEN <<>>
    ELSE LET head == pathTo(preds, source, preds[current])
         IN IF head = <<>> THEN <<>> ELSE Append(head, current)

\* graph.ShortestPath: the paths it can return; {} is ErrTargetNotReachable.
ShortestPaths(nm, source, target) ==
    { pathTo(preds, source, target) :
        preds \in bestPredecessors(nm, [v \in {source} |-> 0], <<>>,
                                   nm.Vertices) } \ {<<>>}

\* A sum of Go ints wraps around; MaxDuration stands for the largest.
WrapInt(x) ==
    IF x > MaxDuration THEN x - 2 * (MaxDuration + 1)
    ELSE IF x < -(MaxDuration + 1) THEN x + 2 * (MaxDuration + 1)
    ELSE x

RECURSIVE WrapSum(_)
WrapSum(s) == IF s = <<>> THEN 0 ELSE WrapInt(WrapSum(SubSeq(s, 1, Len(s) - 1)) + Last(s))

\* PATH_THRESHOLD_FACTOR = 1.66: float64(ourWeight) * 1.66 < float64(pathWeight)
PathIsTooLong(ourWeight, pathWeight) == ourWeight * 166 < pathWeight * 100

\* processSegment once both ends have their parents and a path is chosen
processWithPath(nm, seg, path) ==
    LET weights == [i \in 1..(Len(path) - 1) |-> GraphEdge(nm, path[i], path[i + 1]).weight]
        pathWeight == WrapSum(weights)
        segments == [i \in 1..(Len(path) - 1) |->
                        Segment(ParentStop(nm, path[i]), ParentStop(nm, path[i + 1]), weights[i])]
    IN IF Len(path) = 2
       THEN setSegmentOnGraph(nm, seg, GraphEdge(nm, path[1], path[2]).data)
       ELSE IF PathIsTooLong(seg.travelTime, pathWeight)
       THEN setSegmentOnGraph(nm, seg, <<>>)
       ELSE setSegmentOnGraph(nm, seg, segments)

\* processSegment, call by call: what it was given (given), the segment
\* between the parents of its ends (seg), the map once both ends are in
\* it (before), the path graph.ShortestPath returned (<<>> with reachable
\* FALSE is ErrTargetNotReachable) and the map it leaves (after).  The set
\* holds every call the map orders of Go and of the library allow.
processSegmentCalls(nm, seg) ==
    UNION { UNION {
        LET nm2 == t.nm
            pseg == Segment(ParentStop(nm2, s.fsid), ParentStop(nm2, t.fsid), seg.travelTime)
            paths == ShortestPaths(nm2, s.fsid, t.fsid)
            call(path, reachable, after) ==
                [called |-> TRUE, given |-> seg, seg |-> pseg, before |-> nm2,
                 path |-> path, reachable |-> reachable, after |-> after]
        IN IF paths = {} THEN { call(<<>>, FALSE, setSegmentOnGraph(nm2, pseg, <<>>)) }
           ELSE { call(path, TRUE, processWithPath(nm2, pseg, path)) : path \in paths }
        : t \in EnsureCloseStopInGraph(s.nm, seg.target) }
        : s \in EnsureCloseStopInGraph(nm, seg.source) }

\* processSegment: every network map it can produce from nm and seg.
processSegment(nm, seg) == { c.after : c \in processSegmentCalls(nm, seg) }

\* decomposeGraphSegment: the work list is taken from its head, a composite
\* edge's composition is put at the head, an elementary segment is output.
\* "missing" is the error of a failed edge lookup; "loops" stands for a work
\* list that grows beyond MaxWorkList (compositions that refer to one another).
RECURSIVE decomposeGraphSegment(_, _, _)
decomposeGraphSegment(nm, processStack, processed) ==
    IF processStack = <<>> THEN [status |-> "ok", segs |-> processed]
    ELSE IF Len(processStack) + Len(processed) > MaxWorkList
    THEN [status |-> "loops", segs |-> <<>>]
    ELSE LET currentSeg == Head(processStack)
             a == currentSeg.source.StopId
             b == currentSeg.target.StopId
         IN IF ~ HasEdge(nm, a, b) THEN [status |-> "missing", segs |-> <<>>]
            ELSE IF GraphEdge(nm, a, b).data # <<>>
            THEN decomposeGraphSegment(nm, GraphEdge(nm, a, b).data \o Tail(processStack),
                                       processed)
            ELSE decomposeGraphSegment(nm, Tail(processStack), Append(processed, currentSeg))

\* decomposeTripSegment.  A stop the map has never seen has the zero
\* feededStopId as its parent, which is no vertex: the edge lookup fails.
decomposeTripSegment(nm, seg) ==
    IF ~ Contains(nm, seg.source) \/ ~ Contains(nm, seg.target)
    THEN [status |-> "missing", segs |-> <<>>]
    ELSE LET sourceFsid == nm.CityAssociations[seg.source.StopId]
             targetFsid == nm.CityAssociations[seg.target.StopId]
         IN IF ~ HasEdge(nm, sourceFsid, targetFsid) THEN [status |-> "missing", segs |-> <<>>]
            ELSE decomposeGraphSegment(nm,
                    << Segment(ParentStop(nm, sourceFsid), ParentStop(nm, targetFsid),
                               GraphEdge(nm, sourceFsid, targetFsid).weight) >>, <<>>)


(***************************************************************************)
(* time.Duration is an int64 count of nanoseconds, and the detector        *)
(* multiplies two of them.  A nanosecond count is held here as Limbs       *)
(* digits of LimbBase, the least significant first, so that a product      *)
(* keeps every bit of the 64 that Go keeps.                                *)
(***************************************************************************)
LimbBase == 2 ^ 14
Limbs    == (64 \div 14) + 2   \* 64 bits and room for a carry

BigOfInt(n) ==
    [k \in 1..Limbs |-> CASE k = 1 -> n % LimbBase
                          [] k = 2 -> (n \div LimbBase) % LimbBase
                          [] k = 3 -> n \div (LimbBase * LimbBase)
                          [] OTHER -> 0]

RECURSIVE Carried(_, _, _)
Carried(cols, k, carry) ==
    IF k > Limbs THEN <<>>
    ELSE <<(cols[k] + carry) % LimbBase>>
             \o Carried(cols, k + 1, (cols[k] + carry) \div LimbBase)

\* x * y, the digits above Limbs dropped
BigMul(x, y) ==
    Carried([k \in 1..Limbs |-> SumSeq([i \in 1..k |-> x[i] * y[k + 1 - i]])], 1, 0)

RECURSIVE Borrowed(_, _, _, _)
Borrowed(x, y, k, borrow) ==
    IF k > Limbs THEN <<>>
    ELSE LET d == x[k] - y[k] - borrow
         IN IF d < 0 THEN <<d + LimbBase>> \o Borrowed(x, y, k + 1, 1)
            ELSE <<d>> \o Borrowed(x, y, k + 1, 0)

\* x - y, for y <= x
BigSub(x, y) == Borrowed(x, y, 1, 0)

\* x \div d for a divisor below LimbBase, digit by digit from the top
RECURSIVE DividedFrom(_, _, _, _)
DividedFrom(x, d, k, rem) ==
    IF k = 0 THEN <<>>
    ELSE DividedFrom(x, d, k - 1, (rem * LimbBase + x[k]) % d)
             \o <<(rem * LimbBase + x[k]) \div d>>

BigDiv(x, d) == DividedFrom(x, d, Limbs, 0)

\* The integer a count below 2^31 is
IntOfBig(x) == x[1] + LimbBase * (x[2] + LimbBase * x[3])

\* 2^64, and a count reduced to its low 64 bits
TwoTo64 == [k \in 1..Limbs |-> IF k = 5 THEN 2 ^ 8 ELSE 0]
Low64(x) == [k \in 1..Limbs |-> IF k < 5 THEN x[k] ELSE IF k = 5 THEN x[k] % (2 ^ 8) ELSE 0]

\* The model's unit of time, five minutes, in nanoseconds
UnitNs == BigMul(BigOfInt(300), BigOfInt(1000 * 1000 * 1000))

\* A duration of t units (t >= 0) in nanoseconds
DurationNs(t) == BigMul(BigOfInt(t), UnitNs)

\* x \div (c units), the divisor taken factor by factor
DividedByUnits(x, c) == BigDiv(BigDiv(BigDiv(BigDiv(BigDiv(x, c), 300), 1000), 1000), 1000)

\* (a * b) / c on int64 nanosecond counts, a, b >= 0 and c > 0 in units: the
\* product wraps around to 64 bits, two's complement, and the quotient is
\* truncated toward zero.  The result is in nanoseconds.
DurationMulDiv(a, b, c) ==
    LET product == Low64(BigMul(DurationNs(a), DurationNs(b)))
        negative == product[5] >= 2 ^ 7
        size == IF negative THEN BigSub(TwoTo64, product) ELSE product
        quotient == IntOfBig(DividedByUnits(size, c))
    IN IF negative THEN -quotient ELSE quotient

\* The travel times of a trajectory as getPossibleTrainSight rescales them
\* to the travel time of the trip's own segment, in nanoseconds: each is
\* (seg.travelTime * currentSegment.travelTime) / trajectoryTotalTime, and
\* all are 0 when the total is 0.
normalisedTravelTimes(trajectory, currentSegment) ==
    LET trajectoryTotalTime == SumSeq([i \in DOMAIN trajectory |-> trajectory[i].travelTime])
    IN [i \in DOMAIN trajectory |->
          IF trajectoryTotalTime = 0 THEN 0
          ELSE DurationMulDiv(trajectory[i].travelTime, currentSegment.travelTime,
                              trajectoryTotalTime)]

(***************************************************************************)
(* The stationary detector (stationary_sights.go, the NetworkMap variant). *)
(***************************************************************************)
\* getTimesWith: the start and end times; err when a stop time has neither time
getTimesWith(st, other) ==
    LET startTime == IF ~ IsZero(st.DepartureTime) THEN st.DepartureTime ELSE st.ArrivalTime
        endTime   == IF ~ IsZero(other.ArrivalTime) THEN other.ArrivalTime
                     ELSE other.DepartureTime
    IN [err |-> IsZero(startTime) \/ IsZero(endTime), start |-> startTime, end |-> endTime]

\* A float quotient num/den is below 0 or above 1 (an infinity is, a NaN is not)
OutOfUnit(num, den) ==
    IF den = 0 THEN num # 0
    ELSE num * den < 0 \/ (den > 0 /\ num > den) \/ (den < 0 /\ num < den)

\* int64(float64(totalTime) * (num/den)): truncated toward zero; of a NaN or
\* an infinity the conversion is implementation-specific (the smallest int64
\* on amd64, a saturated value on arm64).
ScaledTimes(totalTime, num, den) ==
    IF den # 0 THEN { DivTrunc(totalTime * num, den) }
    ELSE { -(MaxDuration + 1), 0, MaxDuration }

\* getPassingTime: the possible results, an error or a duration since the epoch
getPassingTime(obsPoint, st, other) ==
    LET times == getTimesWith(st, other)
        totalLat == other.Stop.StopLat - st.Stop.StopLat
        totalLon == other.Stop.StopLon - st.Stop.StopLon
        partialLat == obsPoint.Lat - st.Stop.StopLat
        partialLon == obsPoint.Lon - st.Stop.StopLon
        useLat == OutOfUnit(partialLon, totalLon)
    IN IF times.err THEN { [err |-> TRUE, t |-> 0] }
       ELSE { [err |-> FALSE, t |-> times.start + partialTime] :
                partialTime \in IF useLat
                                THEN ScaledTimes(times.end - times.start, partialLat, totalLat)
                                ELSE ScaledTimes(times.end - times.start, partialLon, totalLon) }

\* The proximity radius the detector applies to a trip
closenessThreshold(trip) == CloseHeavyRailStationThreshold

hasClose(trip, obsPoint, stop) ==
    DistLess(GetPoint(stop), obsPoint, closenessThreshold(trip))

\* A faulty variant: the swing measured against BearingMinThreshold
hasBearingSwingOverMin(obsPoint, seg) ==
    ~ DiffLessThanMin(BearingVec(GetPoint(seg.target), obsPoint),
                      BearingVec(GetPoint(seg.source), obsPoint))

hasBearingSwing(obsPoint, seg) ==
    ~ DiffLessThanMax(BearingVec(GetPoint(seg.target), obsPoint),
                      BearingVec(GetPoint(seg.source), obsPoint))

\* The loop over the decomposed sub-segments of one stop pair, from
\* sub-segment k on: 0 when none qualifies, else the first k at which
\* hasBearing || hasCloseStop holds (hasCloseStop is kept from one
\* sub-segment to the next).
RECURSIVE firstQualifying(_, _, _, _, _)
firstQualifying(trip, obsPoint, trajectory, k, hasCloseStop) ==
    IF k > Len(trajectory) THEN 0
    ELSE LET close == hasCloseStop \/ hasClose(trip, obsPoint, trajectory[k].target)
         IN IF hasBearingSwing(obsPoint, trajectory[k]) \/ close THEN k
            ELSE firstQualifying(trip, obsPoint, trajectory, k + 1, close)

\* One stop pair (stopTimes[i-1], stopTimes[i]) with its decomposition:
\* the sub-segment that makes it a sight, or 0
pairSubSegment(trip, obsPoint, stopTime, trajectory) ==
    firstQualifying(trip, obsPoint, trajectory, 1,
        hasClose(trip, obsPoint, stopTime.Stop)
        \/ hasClose(trip, obsPoint, trajectory[1].source))

TrainSight(trip, stBefore, stAfter, passingTime) ==
    [FeedId |-> trip.FeedId, ServiceId |-> trip.ServiceId, TripId |-> trip.TripId,
     StBefore |-> stBefore, StAfter |-> stAfter, passingTime |-> passingTime]

\* The walk over the stop times from index i (1-based; the pair is
\* stopTimes[i-1], stopTimes[i]): the set of possible outcomes,
\* [kind |-> "none"], [kind |-> "err"], [kind |-> "hang"] or
\* [kind |-> "sight", sight |-> ...].
RECURSIVE walkStopTimes(_, _, _, _, _)
walkStopTimes(nm, obsPoint, trip, segments, i) ==
    IF i > Len(trip.StopTimes) THEN { [kind |-> "none"] }
    ELSE LET trajectory == decomposeTripSegment(nm, segments[i - 1])
         IN IF trajectory.status = "missing" THEN { [kind |-> "err"] }
            ELSE IF trajectory.status = "loops" THEN { [kind |-> "hang"] }
            ELSE IF pairSubSegment(trip, obsPoint, trip.StopTimes[i], trajectory.segs) = 0
            THEN walkStopTimes(nm, obsPoint, trip, segments, i + 1)
            ELSE { IF pt.err THEN [kind |-> "err"]
                   ELSE [kind |-> "sight",
                         sight |-> TrainSight(trip, trip.StopTimes[i - 1],
                                              trip.StopTimes[i], pt.t)] :
                     pt \in getPassingTime(obsPoint, trip.StopTimes[i - 1], trip.StopTimes[i]) }

\* getPossibleTrainSight.  getSegments reorders the trip's stop times
\* before the loop reads them.
getPossibleTrainSight(nm, obsPoint, trip) ==
    IF ~ isRailType(trip.RouteType) THEN { [kind |-> "none"] }
    ELSE LET gs == getSegments(trip)
         IN IF gs.panics THEN { [kind |-> "panic"] }
            ELSE walkStopTimes(nm, obsPoint, [trip EXCEPT !.StopTimes = gs.stopTimes],
                               gs.segments, 2)


(***************************************************************************)
(* Dates and the time zone.  A date is a day number, the instant of its    *)
(* midnight UTC is date * DayLen.  The configured zone has the offset      *)
(* StdOffset until the instant its summer time starts (DstHour UTC on day  *)
(* cfg.dstDay) and DstOffset from then on.                                 *)
(***************************************************************************)
StdOffset == 12   \* +01:00
DstOffset == 24   \* +02:00
DstHour   == 12   \* 01:00 UTC

\* t.In(tz).Zone()
ZoneOffset(dstDay, t) == IF t < dstDay * DayLen + DstHour THEN StdOffset ELSE DstOffset

\* The day whose local date the instant t has in the zone
LocalDay(dstDay, t) ==
    LET local == t + ZoneOffset(dstDay, t)
    IN IF local >= 0 THEN local \div DayLen ELSE -((DayLen - 1 - local) \div DayLen)

RealTrainSight(sight, date) ==
    [TrainSight |-> sight, Date |-> date, Timestamp |-> date * DayLen + sight.passingTime]

\* RealTrainSight.updateInnerDates(tz): the timestamp loses the zone's offset
\* at that instant, the date becomes the local date of the new timestamp.
\* (The stop times copied into the record are re-dated too; the model's
\* records do not carry them.)
updateInnerDates(rts, dstDay) ==
    LET ts == rts.Timestamp - ZoneOffset(dstDay, rts.Timestamp)
    IN [rts EXCEPT !.Timestamp = ts, !.Date = LocalDay(dstDay, ts)]

\* sort.Slice(realTrainSights, Timestamp.Before): an insertion sort for the
\* short slices of the model.
RECURSIVE InsertByTimestamp(_, _)
InsertByTimestamp(s, x) ==
    IF s = <<>> THEN <<x>>
    ELSE IF Before(x.Timestamp, Last(s).Timestamp)
         THEN Append(InsertByTimestamp(SubSeq(s, 1, Len(s) - 1), x), Last(s))
         ELSE Append(s, x)

\* A faulty variant: the records left in the order they were appended
leftInAppendOrder(s) == s

RECURSIVE SortByTimestamp(_)
SortByTimestamp(s) ==
    IF s = <<>> THEN <<>>
    ELSE InsertByTimestamp(SortByTimestamp(SubSeq(s, 1, Len(s) - 1)), Last(s))

RECURSIVE Concat(_)
Concat(ss) == IF ss = <<>> THEN <<>> ELSE Head(ss) \o Concat(Tail(ss))

sightService(sight) == FeededService(sight.FeedId, sight.ServiceId)

\* A faulty variant: the sights looked up by service id alone
sightsOfServiceId(sights, feededService) ==
    SelectSeq(sights, LAMBDA x : x.ServiceId = feededService.ServiceId)

\* serviceToSights[feededService]: the sights of a service, in the order found
sightsOf(sights, feededService) ==
    SelectSeq(sights, LAMBDA x : sightService(x) = feededService)

\* The cross-reference loops of GetRealTrainSights: for each date (in
\* dateOrder, the order the map yields them), for each service of the date,
\* for each sight of the service, one record.
crossReference(dateOrder, dts, sights, dstDay) ==
    Concat([i \in DOMAIN dateOrder |->
        Concat([j \in DOMAIN dts[dateOrder[i]] |->
            LET ofService == sightsOf(sights, dts[dateOrder[i]][j])
            IN [k \in DOMAIN ofService |->
                  updateInnerDates(RealTrainSight(ofService[k], dateOrder[i]), dstDay)]])])


(***************************************************************************)
(* The moving detector (moving_sights.go).                                 *)
(*                                                                         *)
(* The trips of a moving query lie on a coarser grid, of 5 km, so that the *)
(* 15 km threshold is within reach of small coordinates.  Inside the       *)
(* search an instant is counted in 1/TimeScale of the five-minute unit and *)
(* a coordinate in 1/PosScale of the grid unit: the travel time between    *)
(* two stops of these trips is one or two units, so every interpolated     *)
(* position and each of the eleven halvings of a bracket is a whole number *)
(* of these fractions, as exact as the source's float64 arithmetic is on   *)
(* such values.  The stop times of these trips carry both their times.     *)
(***************************************************************************)
DEFAULT_PRECISION_DEPTH == 10
MOVING_KM_THRESHOLD     == 3    \* 15 km
ONE_HOUR                == 12
TIME_GRACE              == 1    \* 5 minutes
PREFER_MOVING_FACTOR    == 2
gracePeriod             == 1    \* 5 minutes

TimeScale == 2 ^ (DEFAULT_PRECISION_DEPTH + 1)
PosScale  == 2 * TimeScale

\* An instant of a timetable, in the search's fractions (the zero time stays)
Fine(t) == IF IsZero(t) THEN NoTime ELSE t * TimeScale

\* time.Time.Add on the search's instants
TimeAdd(t, d) == IF IsZero(t) THEN NoTime ELSE t + d

\* stop.GetPoint(), in the search's fractions
FinePoint(stop) == Pt(stop.StopLat * PosScale, stop.StopLon * PosScale)

InterpolationPoint(position, time) == [Position |-> position, Time |-> time]

ZeroInterPoint == InterpolationPoint(Pt(0, 0), NoTime)

\* A getPositionAt that would interpolate from the arrival at the stop
\* before, not from the departure
RECURSIVE positionFromArrival(_, _, _)
positionFromArrival(trip, time, i) ==
    IF i > Len(trip.StopTimes)
    THEN IF i = 1 THEN Pt(0, 0) ELSE FinePoint(trip.StopTimes[i - 1].Stop)
    ELSE LET stopTime == trip.StopTimes[i]
         IN IF Before(time, Fine(stopTime.ArrivalTime))
            THEN IF i = 1 THEN FinePoint(stopTime.Stop)
                 ELSE LET stBefore == trip.StopTimes[i - 1]
                          totalTime == TimeSub(stopTime.ArrivalTime, stBefore.ArrivalTime)
                                           * TimeScale
                          partialTime == TimeSub(time, Fine(stBefore.ArrivalTime))
                      IN Pt(stBefore.Stop.StopLat * PosScale
                              + DivTrunc(partialTime * (stopTime.Stop.StopLat
                                    - stBefore.Stop.StopLat) * PosScale, totalTime),
                            stBefore.Stop.StopLon * PosScale
                              + DivTrunc(partialTime * (stopTime.Stop.StopLon
                                    - stBefore.Stop.StopLon) * PosScale, totalTime))
            ELSE IF Before(time, Fine(stopTime.DepartureTime))
            THEN FinePoint(stopTime.Stop)
            ELSE positionFromArrival(trip, time, i + 1)

\* Trip.getPositionAt, from stop time i on (stBefore is stop time i - 1)
RECURSIVE positionFrom(_, _, _)
positionFrom(trip, time, i) ==
    IF i > Len(trip.StopTimes)
    THEN IF i = 1 THEN Pt(0, 0) ELSE FinePoint(trip.StopTimes[i - 1].Stop)
    ELSE LET stopTime == trip.StopTimes[i]
         IN IF Before(time, Fine(stopTime.ArrivalTime))
            THEN IF i = 1 THEN FinePoint(stopTime.Stop)
                 ELSE LET stBefore == trip.StopTimes[i - 1]
                          totalTime == TimeSub(stopTime.ArrivalTime, stBefore.DepartureTime)
                                           * TimeScale
                          partialTime == TimeSub(time, Fine(stBefore.DepartureTime))
                          startPoint == stBefore.Stop
                          endPoint == stopTime.Stop
                          partialLat == DivTrunc(partialTime * (endPoint.StopLat
                                            - startPoint.StopLat) * PosScale, totalTime)
                          partialLon == DivTrunc(partialTime * (endPoint.StopLon
                                            - startPoint.StopLon) * PosScale, totalTime)
                      IN Pt(startPoint.StopLat * PosScale + partialLat,
                            startPoint.StopLon * PosScale + partialLon)
            ELSE IF Before(time, Fine(stopTime.DepartureTime))
            THEN FinePoint(stopTime.Stop)
            ELSE positionFrom(trip, time, i + 1)

getPositionAt(trip, time) == positionFrom(trip, time, 1)

getRelativePointTo(ip, other) ==
    InterpolationPoint(Pt(other.Position.Lat - ip.Position.Lat,
                          other.Position.Lon - ip.Position.Lon), ip.Time)

getHalfwayPointWith(ip, other) ==
    LET midPoint == Pt(DivTrunc(other.Position.Lat + ip.Position.Lat, 2),
                       DivTrunc(other.Position.Lon + ip.Position.Lon, 2))
        halfDuration == DivTrunc(TimeSub(other.Time, ip.Time), 2)
    IN InterpolationPoint(midPoint, TimeAdd(ip.Time, halfDuration))

getAbsDistSquared(ip) ==
    ip.Position.Lat * ip.Position.Lat + ip.Position.Lon * ip.Position.Lon

\* A getClosestPointWith that would keep the farther bound of the bracket
RECURSIVE getClosestPointKeepingFarther(_, _, _)
getClosestPointKeepingFarther(ip, other, precisionDepth) ==
    LET halfwayInterPoint == getHalfwayPointWith(ip, other)
    IN IF precisionDepth <= 0 THEN halfwayInterPoint
       ELSE IF getAbsDistSquared(ip) < getAbsDistSquared(other)
       THEN getClosestPointKeepingFarther(halfwayInterPoint, other, precisionDepth - 1)
       ELSE getClosestPointKeepingFarther(ip, halfwayInterPoint, precisionDepth - 1)

\* The brackets (ip, other) of the calls getClosestPointWith makes of
\* itself, the outermost first
RECURSIVE closestPointCalls(_, _, _)
closestPointCalls(ip, other, precisionDepth) ==
    LET halfwayInterPoint == getHalfwayPointWith(ip, other)
    IN << [ip |-> ip, other |-> other, precisionDepth |-> precisionDepth] >> \o
       (IF precisionDepth <= 0 THEN <<>>
        ELSE IF getAbsDistSquared(ip) < getAbsDistSquared(other)
        THEN closestPointCalls(ip, halfwayInterPoint, precisionDepth - 1)
        ELSE closestPointCalls(halfwayInterPoint, other, precisionDepth - 1))

RECURSIVE getClosestPointWith(_, _, _)
getClosestPointWith(ip, other, precisionDepth) ==
    LET halfwayInterPoint == getHalfwayPointWith(ip, other)
    IN IF precisionDepth <= 0 THEN halfwayInterPoint
       ELSE IF getAbsDistSquared(ip) < getAbsDistSquared(other)
       THEN getClosestPointWith(ip, halfwayInterPoint, precisionDepth - 1)
       ELSE getClosestPointWith(halfwayInterPoint, other, precisionDepth - 1)

MovingTrainSight(possibleTrip, absInterPoint, distSquared) ==
    [FeedId |-> possibleTrip.FeedId, ServiceId |-> possibleTrip.ServiceId,
     TripId |-> possibleTrip.TripId,
     FirstSt |-> possibleTrip.StopTimes[1], LastSt |-> Last(possibleTrip.StopTimes),
     PassingInterPoint |-> absInterPoint, DistanceSquared |-> distSquared]

\* A faulty variant: only a candidate that starts after the reference trip
\* has ended is rejected
windowsApartAfterOnly(referenceTrip, possibleTrip, refTripDelay) ==
    Before(TimeAdd(TimeAdd(Fine(Last(referenceTrip.StopTimes).ArrivalTime),
                           Fine(refTripDelay)), Fine(TIME_GRACE)),
           Fine(possibleTrip.StopTimes[1].DepartureTime))

\* The window test at the head of getPossibleMovingSight (refTripDelay in
\* five-minute units): the candidate is rejected outright
windowsApart(referenceTrip, possibleTrip, refTripDelay) ==
    LET refTripMinTime == TimeAdd(Fine(referenceTrip.StopTimes[1].DepartureTime),
                                  Fine(refTripDelay))
        refTripMaxTime == TimeAdd(Fine(Last(referenceTrip.StopTimes).ArrivalTime),
                                  Fine(refTripDelay))
        possibleTripMinTime == Fine(possibleTrip.StopTimes[1].DepartureTime)
        possibleTripMaxTime == Fine(Last(possibleTrip.StopTimes).ArrivalTime)
    IN \/ Before(TimeAdd(refTripMaxTime, Fine(TIME_GRACE)), possibleTripMinTime)
       \/ Before(TimeAdd(possibleTripMaxTime, Fine(TIME_GRACE)), refTripMinTime)

\* A finite set of instants as the ascending sequence sort.Slice makes of it
RECURSIVE Ascending(_)
Ascending(S) ==
    IF S = {} THEN <<>>
    ELSE LET m == CHOOSE x \in S : \A y \in S : x <= y
         IN <<m>> \o Ascending(S \ {m})

\* allRefTimes: the instants of both trips, the reference trip's delayed
unionInstants(referenceTrip, possibleTrip, refTripDelay) ==
    Ascending(
        UNION { { TimeAdd(Fine(st.ArrivalTime), Fine(refTripDelay)),
                  TimeAdd(Fine(st.DepartureTime), Fine(refTripDelay)) } :
                st \in Range(referenceTrip.StopTimes) }
        \cup UNION { { Fine(st.ArrivalTime), Fine(st.DepartureTime) } :
                     st \in Range(possibleTrip.StopTimes) })

interPointSet(possibleTripInterPoint, refTripInterPoint, relativeInterPoint) ==
    [possibleTripInterPoint |-> possibleTripInterPoint,
     refTripInterPoint |-> refTripInterPoint,
     relativeInterPoint |-> relativeInterPoint]

\* What the last turn of the search loop did and what it found retained
\* (kept for the properties)
NoTurn ==
    [time |-> NoTime, evaluated |-> FALSE, previousTime |-> NoTime,
     closestPoint |-> ZeroInterPoint, currentDistSquared |-> 0,
     possibleTripIsAtEnd |-> FALSE, replaced |-> FALSE,
     lowestDistSquaredBefore |-> 0, lowestWasAtEnd |-> FALSE, retainedBefore |-> FALSE]

\* The variables of the search loop as they are declared, before the loop
newSearch(allRefTimes) ==
    [allRefTimes |-> allRefTimes, i |-> 1,
     previousSet |-> interPointSet(ZeroInterPoint, ZeroInterPoint, ZeroInterPoint),
     currentLowestDistSquared |-> 0,
     lowestInterPointIsAtEndOfTrip |-> FALSE,
     lowestInterPoint |-> ZeroInterPoint,
     last |-> NoTurn]

\* One turn of the loop over allRefTimes
scanInstant(referenceTrip, possibleTrip, refTripDelay, s) ==
    LET time == s.allRefTimes[s.i]
        refTripMinTime == TimeAdd(Fine(referenceTrip.StopTimes[1].DepartureTime),
                                  Fine(refTripDelay))
        refTripMaxTime == TimeAdd(Fine(Last(referenceTrip.StopTimes).ArrivalTime),
                                  Fine(refTripDelay))
        possibleTripInterPoint == InterpolationPoint(getPositionAt(possibleTrip, time), time)
        refTripInterPoint ==
            InterpolationPoint(getPositionAt(referenceTrip, TimeAdd(time, -Fine(refTripDelay))),
                               time)
        relativeInterPoint == getRelativePointTo(possibleTripInterPoint, refTripInterPoint)
        currentSet == interPointSet(possibleTripInterPoint, refTripInterPoint,
                                    relativeInterPoint)
        outside == \/ Before(TimeAdd(time, Fine(TIME_GRACE)), refTripMinTime)
                   \/ Before(TimeAdd(refTripMaxTime, Fine(TIME_GRACE)), time)
        closestPoint == getClosestPointWith(relativeInterPoint,
                                            s.previousSet.relativeInterPoint,
                                            DEFAULT_PRECISION_DEPTH)
        currentDistSquared == getAbsDistSquared(closestPoint)
        possibleTripIsAtEnd ==
            getPositionAt(possibleTrip, closestPoint.Time)
                = getPositionAt(possibleTrip, TimeAdd(closestPoint.Time, Fine(ONE_HOUR)))
        factor == PREFER_MOVING_FACTOR * PREFER_MOVING_FACTOR
        \* currentDistSquared < distSquaredThreshold
        belowThreshold ==
            IF s.lowestInterPointIsAtEndOfTrip /\ ~ possibleTripIsAtEnd
            THEN currentDistSquared * factor < s.currentLowestDistSquared
            ELSE IF ~ s.lowestInterPointIsAtEndOfTrip /\ possibleTripIsAtEnd
            THEN currentDistSquared < s.currentLowestDistSquared * factor
            ELSE currentDistSquared < s.currentLowestDistSquared
        replaces == /\ s.currentLowestDistSquared = 0 \/ belowThreshold
                    /\ s.lowestInterPointIsAtEndOfTrip \/ ~ possibleTripIsAtEnd
    IN IF s.i = 1
       THEN [s EXCEPT !.i = 2, !.previousSet = currentSet,
                      !.last = [NoTurn EXCEPT !.time = time]]
       ELSE IF outside
       THEN [s EXCEPT !.i = @ + 1,
                      !.last = [NoTurn EXCEPT !.time = time]]
       ELSE [s EXCEPT
               !.i = @ + 1,
               !.previousSet = currentSet,
               !.currentLowestDistSquared = IF replaces THEN currentDistSquared ELSE @,
               !.lowestInterPoint = IF replaces THEN closestPoint ELSE @,
               !.lowestInterPointIsAtEndOfTrip = IF replaces THEN possibleTripIsAtEnd ELSE @,
               !.last = [time |-> time, evaluated |-> TRUE,
                         previousTime |-> s.previousSet.relativeInterPoint.Time,
                         closestPoint |-> closestPoint,
                         currentDistSquared |-> currentDistSquared,
                         possibleTripIsAtEnd |-> possibleTripIsAtEnd,
                         replaced |-> replaces,
                         lowestDistSquaredBefore |-> s.currentLowestDistSquared,
                         lowestWasAtEnd |-> s.lowestInterPointIsAtEndOfTrip,
                         retainedBefore |-> s.lowestInterPoint # ZeroInterPoint]]

\* The end of getPossibleMovingSight, after the loop: nothing beyond the
\* threshold, else the sight
movingOutcome(referenceTrip, possibleTrip, s) ==
    LET distSquared == getAbsDistSquared(s.lowestInterPoint)
        ourPoint == getPositionAt(referenceTrip, s.lowestInterPoint.Time)
        absPoint == Pt(ourPoint.Lat + s.lowestInterPoint.Position.Lat,
                       ourPoint.Lon + s.lowestInterPoint.Position.Lon)
        absInterPoint == InterpolationPoint(absPoint, s.lowestInterPoint.Time)
    IN IF distSquared > (MOVING_KM_THRESHOLD * PosScale) * (MOVING_KM_THRESHOLD * PosScale)
       THEN [kind |-> "none"]
       ELSE [kind |-> "sight",
             sight |-> MovingTrainSight(possibleTrip, absInterPoint, distSquared)]

RealMovingTrainSight(mts, date) ==
    [MovingTrainSight |-> mts, Date |-> date,
     Timestamp |-> date * DayLen * TimeScale + TimeSub(mts.PassingInterPoint.Time, 0)]

\* The sight lies within the trip's own window, the grace period added
withinOwnWindow(mts) ==
    LET sightTime == mts.PassingInterPoint.Time
        tripDepTime == Fine(mts.FirstSt.DepartureTime)
        tripArrTime == Fine(mts.LastSt.ArrivalTime)
    IN ~ (\/ Before(sightTime, TimeAdd(tripDepTime, -Fine(gracePeriod)))
          \/ Before(TimeAdd(tripArrTime, Fine(gracePeriod)), sightTime))

\* The cross-reference loops of GetSightsFromTrip
crossReferenceMoving(dateOrder, dts, sights) ==
    Concat([i \in DOMAIN dateOrder |->
        Concat([j \in DOMAIN dts[dateOrder[i]] |->
            LET ofService == SelectSeq(sightsOf(sights, dts[dateOrder[i]][j]), withinOwnWindow)
            IN [k \in DOMAIN ofService |->
                  RealMovingTrainSight(ofService[k], dateOrder[i])]])])


(***************************************************************************)
(* The world of the model: the stops, and the trips and service days the   *)
(* database is loaded with.                                                *)
(***************************************************************************)
W1 == Stop("W1", 0, -4)
N  == Stop("N", 4, 0)
E1 == Stop("E1", 0, 4)
K  == Stop("K", 0, 2)
StopCatalogue == {W1, N, E1, K}

ObsPoint == Pt(0, 0)

\* Sequences of distinct stops, 2 .. MaxStops long
StopPaths ==
    UNION { { f \in [1..n -> StopCatalogue] : \A i, j \in 1..n : i # j => f[i] # f[j] } :
            n \in 2..MaxStops }

\* A trip's timetable: the k-th stop is reached and left at t0 + (k-1)*hop;
\* defect.at names a stop time that lacks its departure time ("arrOnly"),
\* its arrival time ("depOnly") or both ("none"); defect.at = 0: no defect.
Timetable(path, t0, hop, defect) ==
    [k \in DOMAIN path |->
        StopTime(path[k],
                 IF defect.at = k /\ defect.kind \in {"depOnly", "none"}
                 THEN NoTime ELSE t0 + (k - 1) * hop,
                 IF defect.at = k /\ defect.kind \in {"arrOnly", "none"}
                 THEN NoTime ELSE t0 + (k - 1) * hop,
                 k)]

NoDefect == [at |-> 0, kind |-> "full"]
Defects(path) ==
    {NoDefect} \cup { [at |-> k, kind |-> kind] :
                        k \in DOMAIN path, kind \in {"arrOnly", "depOnly", "none"} }

ServiceDay(date, feed, service) == [Date |-> date, FeedId |-> feed, ServiceId |-> service]

Dates == 0..(NumDates - 1)

\* The first trip of the database: any path, rail with any defect or a bus
QueryTrips ==
    UNION { { Trip("f1", "X", "s1", rt, Timetable(path, 10, 2, defect)) :
                rt \in {RouteTypeHeavyRail, RouteTypeTram}, defect \in Defects(path) } :
            path \in StopPaths }
    \cup { Trip("f1", "X", "s1", RouteTypeBus, Timetable(path, 10, 2, NoDefect)) :
             path \in StopPaths }

\* The second trip, of another feed: an all-stops local or a shuttle
LocalTrip   == Trip("f2", "Y", "s1", RouteTypeHeavyRail, Timetable(<<W1, N, E1>>, 10, 1, NoDefect))
ShuttleTrip == Trip("f2", "Y", "s1", RouteTypeTram, Timetable(<<W1, E1>>, 12, 2, NoDefect))

\* Databases that vary the trips ...
TripWorlds ==
    { [trips |-> <<x>> \o y,
       serviceDays |-> {ServiceDay(0, "f1", "s1"), ServiceDay(0, "f2", "s1")}] :
        x \in QueryTrips, y \in {<<>>, <<LocalTrip>>, <<ShuttleTrip>>} }

\* ... and databases that vary the calendar
CalendarWorlds ==
    { [trips |-> <<x, ShuttleTrip>>, serviceDays |-> rows] :
        x \in { Trip("f1", "X", "s1", RouteTypeHeavyRail, Timetable(path, 10, 2, NoDefect)) :
                  path \in {<<W1, E1>>, <<N, K>>} },
        rows \in SUBSET { ServiceDay(d, f, "s1") : d \in Dates, f \in {"f1", "f2"} } }

(***************************************************************************)
(* State.                                                                  *)
(***************************************************************************)
VARIABLES
    db,               \* the database: trips and serviceDays
    cfg,              \* FetcherConfig: tzKnown (TimeZone names a zone), dstDay
    query,            \* the query being answered, with its arguments
    pc,               \* where the query is
    dateToServices,   \* date -> the services of the date, in row order
    possibleTrips,    \* the candidate trips fetched
    allSegments,      \* NewNetworkMapFromTrips: the sorted segment list
    segIdx,           \* ... and the next segment to process
    nm,               \* the NetworkMap being built
    tripIdx,          \* the next candidate trip to evaluate
    serviceToSights,  \* the sights found so far, in the order found
    outcomes,         \* what the detector returned, call by call
    search,           \* getPossibleMovingSight: the variables of its search loop
    result,           \* the slice returned
    err,              \* an error was returned
    tm,               \* NewNetworkMapFromTrips: the tripMap being filled
    seen,             \* ... and the trip segments it has been given
    turn,             \* the last processSegment call: what it was given and did
    firstPass,        \* the NetworkMap as the first pass over the segments left it
    decomposition,    \* the last decomposition of a trip segment
    loader            \* the loader: calendars, exceptions, the service days computed

vars == <<db, cfg, query, pc, dateToServices, possibleTrips, allSegments, segIdx, nm,
          tripIdx, serviceToSights, outcomes, search, result, err,
          tm, seen, turn, firstPass, decomposition, loader>>

inputs == <<db, cfg, query>>

\* The state of the network map's own operations
build == <<tm, seen, turn, firstPass, decomposition>>

NoCall == [called |-> FALSE]
NoTrajectory == [decomposed |-> FALSE]
IdleLoader == [loaded |-> FALSE]

StartState ==
    /\ dateToServices = <<>>
    /\ possibleTrips = <<>>
    /\ allSegments = <<>>
    /\ segIdx = 1
    /\ nm = NewNetworkMap
    /\ tripIdx = 1
    /\ serviceToSights = <<>>
    /\ outcomes = <<>>
    /\ result = <<>>
    /\ err = FALSE
    /\ tm = {}
    /\ seen = {}
    /\ turn = NoCall
    /\ firstPass = NewNetworkMap
    /\ decomposition = NoTrajectory
    /\ loader = IdleLoader

InitSight ==
    /\ \/ /\ db \in TripWorlds
          /\ cfg = [tzKnown |-> TRUE, dstDay |-> NumDates,
                    DatabaseOutOfBoundsGraceDegrees |-> DatabaseOutOfBoundsGrace]
          /\ query = [kind |-> "stationary", obsPoint |-> ObsPoint,
                      startDate |-> 0, endDate |-> 0]
       \/ /\ db \in CalendarWorlds
          /\ cfg \in [tzKnown : BOOLEAN, dstDay : {0, NumDates},
                      DatabaseOutOfBoundsGraceDegrees : {DatabaseOutOfBoundsGrace}]
          /\ query \in [kind : {"stationary"}, obsPoint : {ObsPoint},
                        startDate : {0}, endDate : Dates]
    /\ pc = "services"
    /\ search = newSearch(<<>>)
    /\ StartState

(***************************************************************************)
(* GetRealTrainSights, step by step.                                       *)
(***************************************************************************)
\* GetServicesBetweenDates: the rows whose date lies in the range (SQL's
\* BETWEEN includes both ends), in the order the database returns them.
ServicesOn(rows, d) ==
    { FeededService(r.FeedId, r.ServiceId) : r \in { x \in rows : x.Date = d } }

\* The maps date -> services that a list of rows gives, one per row order
DateToServices(rows) ==
    LET days == { r.Date : r \in rows }
    IN { order \in [days -> UNION { Perms(ServicesOn(rows, d)) : d \in days }] :
           \A d \in days : order[d] \in Perms(ServicesOn(rows, d)) }

ServicesBetweenDates(startDate, endDate) ==
    { r \in db.serviceDays : startDate <= r.Date /\ r.Date <= endDate }

GetServicesBetweenDates ==
    /\ pc = "services"
    /\ dateToServices' \in
         DateToServices(ServicesBetweenDates(query.startDate, query.endDate))
    /\ pc' = "trips"
    /\ UNCHANGED <<inputs, build, loader, search, possibleTrips, allSegments, segIdx, nm, tripIdx,
                   serviceToSights, outcomes, result, err>>

MinOf(S) == CHOOSE x \in S : \A y \in S : x <= y
MaxOf(S) == CHOOSE x \in S : \A y \in S : x >= y

\* GetTripsWithIntersection: the trips whose bounding box meets the box given
TripsWithIntersection(trips, minLat, maxLat, minLon, maxLon) ==
    SelectSeq(trips, LAMBDA t :
        LET lats == { st.Stop.StopLat : st \in Range(t.StopTimes) }
            lons == { st.Stop.StopLon : st \in Range(t.StopTimes) }
        IN /\ t.StopTimes # <<>>
           /\ MaxOf(lats) >= minLat - cfg.DatabaseOutOfBoundsGraceDegrees
           /\ MinOf(lats) <= maxLat + cfg.DatabaseOutOfBoundsGraceDegrees
           /\ MaxOf(lons) >= minLon - cfg.DatabaseOutOfBoundsGraceDegrees
           /\ MinOf(lons) <= maxLon + cfg.DatabaseOutOfBoundsGraceDegrees)

GetTripsInsidePointInterval(trips, pt1, pt2) ==
    TripsWithIntersection(trips, Min2(pt1.Lat, pt2.Lat), Max2(pt1.Lat, pt2.Lat),
                          Min2(pt1.Lon, pt2.Lon), Max2(pt1.Lon, pt2.Lon))

GetTripsContaining ==
    /\ pc = "trips"
    /\ possibleTrips' = GetTripsInsidePointInterval(db.trips, query.obsPoint, query.obsPoint)
    /\ pc' = "segments"
    /\ UNCHANGED <<inputs, build, loader, search, dateToServices, allSegments, segIdx, nm, tripIdx,
                   serviceToSights, outcomes, result, err>>


\* The trips as getSegments leaves them: stop times sorted by departure
sortedInPlace(trips) ==
    [i \in DOMAIN trips |-> [trips[i] EXCEPT !.StopTimes = getSegments(trips[i]).stopTimes]]

tripSegments(trips) == Concat([i \in DOMAIN trips |-> getSegments(trips[i]).segments])

\* Where the query goes once the network map is built
afterBuild(segments, next) == IF next > Len(segments) THEN "detect" ELSE "build"

\* NewNetworkMapFromTrips, up to the sorted segment list.  A negative travel
\* time panics.
BuildSegmentList ==
    /\ pc = "segments"
    /\ IF \E i \in DOMAIN possibleTrips : getSegments(possibleTrips[i]).panics
       THEN /\ pc' = "panic"
            /\ UNCHANGED <<possibleTrips, allSegments>>
       ELSE /\ possibleTrips' = sortedInPlace(possibleTrips)
            /\ allSegments' \in SortedByDistance(updateSegments({}, tripSegments(possibleTrips)))
            /\ pc' = afterBuild(allSegments', 1)
    /\ UNCHANGED <<inputs, build, loader, search, dateToServices, segIdx, nm, tripIdx, serviceToSights, outcomes,
                   result, err>>

\* NewNetworkMapFromTrips, one turn of the loop over the sorted segments
ProcessSegment ==
    /\ pc = "build"
    /\ nm' \in processSegment(nm, allSegments[segIdx])
    /\ segIdx' = segIdx + 1
    /\ pc' = afterBuild(allSegments, segIdx + 1)
    /\ UNCHANGED <<inputs, build, loader, search, dateToServices, possibleTrips, allSegments, tripIdx,
                   serviceToSights, outcomes, result, err>>

\* GetRealTrainSights, one turn of the loop over the candidate trips
DetectTrip ==
    /\ pc = "detect"
    /\ tripIdx <= Len(possibleTrips)
    /\ \E r \in getPossibleTrainSight(nm, query.obsPoint, possibleTrips[tripIdx]) :
         /\ pc' = CASE r.kind = "err" -> "error"
                    [] r.kind = "panic" -> "panic"
                    [] r.kind = "hang" -> "hang"
                    [] OTHER -> "detect"
         /\ err' = (r.kind = "err")
         /\ serviceToSights' = IF r.kind = "sight" THEN Append(serviceToSights, r.sight)
                               ELSE serviceToSights
         /\ tripIdx' = IF r.kind \in {"none", "sight"} THEN tripIdx + 1 ELSE tripIdx
         /\ outcomes' = Append(outcomes, r)
    /\ UNCHANGED <<inputs, build, loader, search, dateToServices, possibleTrips, allSegments, segIdx, nm, result>>

\* time.LoadLocation(f.Config.TimeZone), once every trip is evaluated
LoadLocation ==
    /\ pc = "detect"
    /\ tripIdx > Len(possibleTrips)
    /\ pc' = IF cfg.tzKnown THEN "cross" ELSE "error"
    /\ err' = ~ cfg.tzKnown
    /\ UNCHANGED <<inputs, build, loader, search, dateToServices, possibleTrips, allSegments, segIdx, nm, tripIdx,
                   serviceToSights, outcomes, result>>

\* The cross-reference of dates, services and sights, and the final sort
CrossReference ==
    /\ pc = "cross"
    /\ \E dateOrder \in Perms(DOMAIN dateToServices) :
         result' = SortByTimestamp(
                       crossReference(dateOrder, dateToServices, serviceToSights, cfg.dstDay))
    /\ pc' = "done"
    /\ UNCHANGED <<inputs, build, loader, search, dateToServices, possibleTrips, allSegments, segIdx, nm, tripIdx,
                   serviceToSights, outcomes, err>>

NextSight ==
    \/ GetServicesBetweenDates
    \/ GetTripsContaining
    \/ BuildSegmentList
    \/ ProcessSegment
    \/ DetectTrip
    \/ LoadLocation
    \/ CrossReference

SpecSight == InitSight /\ [][NextSight]_vars


(***************************************************************************)
(* GetSightsFromTrip, step by step.  The stops of its world are on the     *)
(* 5 km grid; the bounding-box grace of about 2 km admits, on whole        *)
(* coordinates of that grid, exactly the trips a grace of 0 admits.        *)
(***************************************************************************)
CoarseOutOfBoundsGrace == 0

StationA == Stop("A", 0, 0)
StationB == Stop("B", 0, 2)
StationC == Stop("C", 2, 1)
StationD == Stop("D", 3, 3)
CoarseCatalogue == {StationA, StationB, StationC, StationD}

CoarsePaths ==
    UNION { { f \in [1..n -> CoarseCatalogue] : \A i, j \in 1..n : i # j => f[i] # f[j] } :
            n \in 2..MaxStops }

\* A timetable with both times at every stop: the k-th stop is reached at
\* t0 + (k-1)*(hop + dwell) and left dwell later.
DwellTimetable(path, t0, hop, dwell) ==
    [k \in DOMAIN path |->
        StopTime(path[k], t0 + (k - 1) * (hop + dwell),
                 t0 + (k - 1) * (hop + dwell) + dwell, k)]

\* The trips ridden ...
ReferenceTrips ==
    { Trip("f1", "X", "s1", RouteTypeHeavyRail, DwellTimetable(<<StationA, StationB>>, 10, 2, 0)),
      Trip("f1", "X", "s1", RouteTypeHeavyRail,
           DwellTimetable(<<StationA, StationC, StationB>>, 10, 1, 1)) }

\* ... and the other trip of the database
CandidateTrips ==
    { Trip("f2", "Y", "s2", RouteTypeHeavyRail, DwellTimetable(path, t0, hop, dwell)) :
        path \in CoarsePaths, t0 \in {8, 10, 11, 14}, hop \in {1, 2}, dwell \in {0, 1} }

\* A ride of seventy minutes without a stop, and the trips that leave its last
\* station as it arrives
LongReferenceTrip ==
    Trip("f1", "X", "s1", RouteTypeHeavyRail, DwellTimetable(<<StationA, StationB>>, 10, 14, 0))

ConnectingTrips ==
    { Trip("f2", "Y", "s2", RouteTypeHeavyRail, DwellTimetable(path, 24, hop, 0)) :
        path \in { q \in CoarsePaths : Len(q) = 2 }, hop \in {1, 2} }

CandidatesOf(ref) == IF ref = LongReferenceTrip THEN ConnectingTrips ELSE CandidateTrips

CoarseCalendars ==
    { {ServiceDay(0, "f1", "s1"), ServiceDay(0, "f2", "s2")},
      {ServiceDay(0, "f2", "s2")},
      {ServiceDay(0, "f1", "s1"), ServiceDay(NumDates - 1, "f2", "s2")} }

InitMoving ==
    /\ \E ref \in ReferenceTrips \cup {LongReferenceTrip} :
         /\ db \in { [trips |-> <<ref, y>>, serviceDays |-> rows] :
                       y \in CandidatesOf(ref), rows \in CoarseCalendars }
         /\ query \in [kind : {"moving"}, trip : {ref}, date : {0}, lateTime : 0..MaxLate]
    /\ cfg = [tzKnown |-> TRUE, dstDay |-> NumDates,
              DatabaseOutOfBoundsGraceDegrees |-> CoarseOutOfBoundsGrace]
    /\ pc = "overlap"
    /\ search = newSearch(<<>>)
    /\ StartState

\* GetTripsInsidePointInterval(firstSt.Stop.GetPoint(), lastSt.Stop.GetPoint())
GetOverlappingTrips ==
    /\ pc = "overlap"
    /\ possibleTrips' = GetTripsInsidePointInterval(db.trips,
                            GetPoint(query.trip.StopTimes[1].Stop),
                            GetPoint(Last(query.trip.StopTimes).Stop))
    /\ pc' = "servicesOn"
    /\ UNCHANGED <<inputs, build, loader, search, dateToServices, allSegments, segIdx, nm, tripIdx,
                   serviceToSights, outcomes, result, err>>

GetServicesOnDate ==
    /\ pc = "servicesOn"
    /\ dateToServices' \in DateToServices(ServicesBetweenDates(query.date, query.date))
    /\ pc' = "candidate"
    /\ UNCHANGED <<inputs, build, loader, search, possibleTrips, allSegments, segIdx, nm, tripIdx,
                   serviceToSights, outcomes, result, err>>

\* getPossibleMovingSight, up to the loop: rejected by the window test, or
\* the search set up
BeginCandidate ==
    /\ pc = "candidate"
    /\ tripIdx <= Len(possibleTrips)
    /\ IF windowsApart(query.trip, possibleTrips[tripIdx], query.lateTime)
       THEN /\ outcomes' = Append(outcomes, [kind |-> "none"])
            /\ tripIdx' = tripIdx + 1
            /\ UNCHANGED <<pc, search>>
       ELSE /\ search' = newSearch(unionInstants(query.trip, possibleTrips[tripIdx],
                                                 query.lateTime))
            /\ pc' = "scan"
            /\ UNCHANGED <<outcomes, tripIdx>>
    /\ UNCHANGED <<inputs, build, loader, dateToServices, possibleTrips, allSegments, segIdx, nm,
                   serviceToSights, result, err>>

\* getPossibleMovingSight, one turn of the loop over the instants
ScanInstant ==
    /\ pc = "scan"
    /\ search.i <= Len(search.allRefTimes)
    /\ search' = scanInstant(query.trip, possibleTrips[tripIdx], query.lateTime, search)
    /\ UNCHANGED <<inputs, build, loader, pc, dateToServices, possibleTrips, allSegments, segIdx, nm,
                   tripIdx, serviceToSights, outcomes, result, err>>

\* getPossibleMovingSight after the loop, and the caller's append
EndCandidate ==
    /\ pc = "scan"
    /\ search.i > Len(search.allRefTimes)
    /\ LET r == movingOutcome(query.trip, possibleTrips[tripIdx], search)
       IN /\ outcomes' = Append(outcomes, r)
          /\ serviceToSights' = IF r.kind = "sight" THEN Append(serviceToSights, r.sight)
                                ELSE serviceToSights
    /\ tripIdx' = tripIdx + 1
    /\ pc' = "candidate"
    /\ UNCHANGED <<inputs, build, loader, search, dateToServices, possibleTrips, allSegments, segIdx, nm,
                   result, err>>

\* The cross-reference with the services of the date, and the final sort
CrossReferenceMoving ==
    /\ pc = "candidate"
    /\ tripIdx > Len(possibleTrips)
    /\ \E dateOrder \in Perms(DOMAIN dateToServices) :
         result' = SortByTimestamp(
                       crossReferenceMoving(dateOrder, dateToServices, serviceToSights))
    /\ pc' = "done"
    /\ UNCHANGED <<inputs, build, loader, search, dateToServices, possibleTrips, allSegments, segIdx, nm,
                   tripIdx, serviceToSights, outcomes, err>>

NextMoving ==
    \/ GetOverlappingTrips
    \/ GetServicesOnDate
    \/ BeginCandidate
    \/ ScanInstant
    \/ EndCandidate
    \/ CrossReferenceMoving

SpecMoving == InitMoving /\ [][NextMoving]_vars

(***************************************************************************)
(* NewNetworkMapFromTrips on its own, step by step, followed by the        *)
(* decomposition of the trips' segments and by a second pass over the same *)
(* segment list.  The trips are single hops between four stops: K and E1   *)
(* are close enough to share a parent stop, and every other two stops are  *)
(* 0.8 km or more apart.                                                   *)
(***************************************************************************)
NE == Stop("NE", 4, 2)

NetworkHops ==
    { <<W1, K>>, <<K, W1>>, <<K, NE>>, <<W1, NE>>, <<NE, W1>>, <<W1, E1>>, <<K, E1>> }

\* The travel times a hop may have: ten or fifteen minutes, and the short
\* hops out of K none (arrival and departure in the same minute) or ten
HopTimes(h) == IF h[1] = K /\ h[2] # W1 THEN {0, 2} ELSE {2, 3}
MaxFeed == 4

\* The segments Trip.getSegments gives for these trips
TripHops == UNION { { Segment(h[1], h[2], t) : t \in HopTimes(h) } : h \in NetworkHops }

InitNetwork ==
    /\ db = [trips |-> <<>>, serviceDays |-> {}]
    /\ cfg = [tzKnown |-> TRUE, dstDay |-> NumDates,
              DatabaseOutOfBoundsGraceDegrees |-> DatabaseOutOfBoundsGrace]
    /\ query = [kind |-> "network"]
    /\ pc = "feed"
    /\ search = newSearch(<<>>)
    /\ StartState

\* NewNetworkMapFromTrips, one turn of the loops over the trips' segments
UpdateSegment ==
    /\ pc = "feed"
    /\ Cardinality(seen) < MaxFeed
    /\ \E tripSegment \in TripHops \ seen :
         /\ tm' = updateSegment(tm, tripSegment)
         /\ seen' = seen \cup {tripSegment}
    /\ UNCHANGED <<inputs, loader, turn, firstPass, decomposition, pc, dateToServices,
                   possibleTrips, allSegments, segIdx, nm, tripIdx, serviceToSights,
                   outcomes, search, result, err>>

\* tm.getAllSegments() and the sort by distance
GetAllSegments ==
    /\ pc = "feed"
    /\ seen # {}
    /\ allSegments' \in SortedByDistance(tm)
    /\ segIdx' = 1
    /\ pc' = "pass1"
    /\ UNCHANGED <<inputs, build, loader, dateToServices, possibleTrips, nm, tripIdx,
                   serviceToSights, outcomes, search, result, err>>

\* One turn of the loop over the sorted segments, in the first pass or in
\* the second
ProcessSegmentCall ==
    /\ pc \in {"pass1", "pass2"}
    /\ segIdx <= Len(allSegments)
    /\ \E c \in processSegmentCalls(nm, allSegments[segIdx]) :
         /\ turn' = c
         /\ nm' = c.after
    /\ segIdx' = segIdx + 1
    /\ UNCHANGED <<inputs, loader, tm, seen, firstPass, decomposition, pc, dateToServices,
                   possibleTrips, allSegments, tripIdx, serviceToSights, outcomes, search,
                   result, err>>

\* NewNetworkMapFromTrips returns the map
ReturnNetworkMap ==
    /\ pc = "pass1"
    /\ segIdx > Len(allSegments)
    /\ firstPass' = nm
    /\ pc' = "built"
    /\ UNCHANGED <<inputs, loader, tm, seen, turn, decomposition, dateToServices,
                   possibleTrips, allSegments, segIdx, nm, tripIdx, serviceToSights,
                   outcomes, search, result, err>>

\* decomposeTripSegment for a segment of one of the trips, and the detector's
\* rescaling of the travel times
DecomposeTripSegment ==
    /\ pc = "built"
    /\ \E currentSegment \in seen :
            LET d == decomposeTripSegment(nm, currentSegment)
            IN decomposition' =
                 [decomposed |-> TRUE, currentSegment |-> currentSegment,
                  status |-> d.status, segs |-> d.segs,
                  normalised |-> IF d.status = "ok"
                                 THEN normalisedTravelTimes(d.segs, currentSegment)
                                 ELSE <<>>]
    /\ UNCHANGED <<inputs, loader, tm, seen, turn, firstPass, pc, dateToServices,
                   possibleTrips, allSegments, segIdx, nm, tripIdx, serviceToSights,
                   outcomes, search, result, err>>

\* The same segment list processed once more on the map
ProcessAgain ==
    /\ pc = "built"
    /\ segIdx' = 1
    /\ pc' = "pass2"
    /\ UNCHANGED <<inputs, build, loader, dateToServices, possibleTrips, allSegments, nm,
                   tripIdx, serviceToSights, outcomes, search, result, err>>

NextNetwork ==
    \/ UpdateSegment
    \/ GetAllSegments
    \/ ProcessSegmentCall
    \/ ReturnNetworkMap
    \/ DecomposeTripSegment
    \/ ProcessAgain

SpecNetwork == InitNetwork /\ [][NextNetwork]_vars

(***************************************************************************)
(* The loader's calendar resolution.  A date is a day number, day 0 a      *)
(* Monday; time.Parse gives every date at midnight UTC, so that a day more *)
(* is ONE_DAY more and two equal dates are equal map keys.                 *)
(***************************************************************************)
MaxDay == 9
LoaderDays == 0..MaxDay

Weekdays == <<"Monday", "Tuesday", "Wednesday", "Thursday", "Friday", "Saturday", "Sunday">>
\* time.Time.Weekday
Weekday(date) == Weekdays[(date % 7) + 1]

ExceptionTypeServiceAdded == "added"
ExceptionTypeServiceRemoved == "removed"

Calendar(feed, service, running, start, end) ==
    [FeedId |-> feed, ServiceId |-> service,
     Monday |-> "Monday" \in running, Tuesday |-> "Tuesday" \in running,
     Wednesday |-> "Wednesday" \in running, Thursday |-> "Thursday" \in running,
     Friday |-> "Friday" \in running, Saturday |-> "Saturday" \in running,
     Sunday |-> "Sunday" \in running,
     StartDate |-> start, EndDate |-> end]

CalendarDate(feed, service, date, exceptionType) ==
    [FeedId |-> feed, ServiceId |-> service, Date |-> date, ExceptionType |-> exceptionType]

GetWeekdayStatus(c, weekday) ==
    CASE weekday = "Monday"    -> c.Monday
      [] weekday = "Tuesday"   -> c.Tuesday
      [] weekday = "Wednesday" -> c.Wednesday
      [] weekday = "Thursday"  -> c.Thursday
      [] weekday = "Friday"    -> c.Friday
      [] weekday = "Saturday"  -> c.Saturday
      [] weekday = "Sunday"    -> c.Sunday

\* The ServiceDay of an exception: the key of serviceDayToCalendarDate
exceptionDay(calendarDate) ==
    ServiceDay(calendarDate.Date, calendarDate.FeedId, calendarDate.ServiceId)

\* The inner loop of calculateServiceDays from date on: the service days
\* it appends for one calendar
RECURSIVE regularDays(_, _, _)
regularDays(calendar, exceptionDays, date) ==
    IF ~ (date < calendar.EndDate) THEN <<>>
    ELSE LET serviceDay == ServiceDay(date, calendar.FeedId, calendar.ServiceId)
             hasNegativeServiceException == serviceDay \in exceptionDays
             isServiceRunning == IF ~ hasNegativeServiceException
                                 THEN GetWeekdayStatus(calendar, Weekday(date))
                                 ELSE FALSE
         IN (IF isServiceRunning THEN <<serviceDay>> ELSE <<>>)
            \o regularDays(calendar, exceptionDays, date + 1)

\* calculateServiceDays: the rows it hands to addToDB, in order
calculateServiceDays(calendars, calendarDates) ==
    LET added == SelectSeq([i \in DOMAIN calendarDates |-> calendarDates[i]],
                           LAMBDA cd : cd.ExceptionType = ExceptionTypeServiceAdded)
        exceptionDays == { exceptionDay(calendarDates[i]) : i \in DOMAIN calendarDates }
        regular[i \in 0..Len(calendars)] ==
            IF i = 0 THEN <<>>
            ELSE regular[i - 1] \o regularDays(calendars[i], exceptionDays, calendars[i].StartDate)
    IN [i \in DOMAIN added |-> exceptionDay(added[i])] \o regular[Len(calendars)]

\* The feeds loaded: one calendar of the service s1, running on working
\* days or every day, and at most one exception, of s1 or of another service
WorkingDays == {"Monday", "Tuesday", "Wednesday", "Thursday", "Friday"}

LoaderCalendars ==
    { <<Calendar("f1", "s1", running, start, end)>> :
        running \in {WorkingDays, Range(Weekdays)},
        start \in LoaderDays, end \in LoaderDays }

LoaderCalendarDates ==
    {<<>>} \cup
    { <<CalendarDate("f1", service, date, exceptionType)>> :
        service \in {"s1", "s2"}, date \in LoaderDays,
        exceptionType \in {ExceptionTypeServiceAdded, ExceptionTypeServiceRemoved} }

InitLoader ==
    /\ db = [trips |-> <<>>, serviceDays |-> {}]
    /\ cfg = [tzKnown |-> TRUE, dstDay |-> NumDates,
              DatabaseOutOfBoundsGraceDegrees |-> DatabaseOutOfBoundsGrace]
    /\ \E calendars \in LoaderCalendars, calendarDates \in LoaderCalendarDates :
         /\ calendars[1].StartDate <= calendars[1].EndDate
         /\ query = [kind |-> "load", calendars |-> calendars, calendarDates |-> calendarDates]
    /\ pc = "load"
    /\ search = newSearch(<<>>)
    /\ StartState

CalculateServiceDays ==
    /\ pc = "load"
    /\ loader' = [loaded |-> TRUE,
                  serviceDays |-> calculateServiceDays(query.calendars, query.calendarDates)]
    /\ pc' = "loaded"
    /\ UNCHANGED <<inputs, build, dateToServices, possibleTrips, allSegments, segIdx, nm,
                   tripIdx, serviceToSights, outcomes, search, result, err>>

NextLoader == CalculateServiceDays

SpecLoader == InitLoader /\ [][NextLoader]_vars

(***************************************************************************)
(* The functions of the moving detector on their own: the arguments are    *)
(* drawn in the initial state, the call is one step.  Positions and times  *)
(* are whole grid and time units in the search's fractions, so that every  *)
(* halving is exact, as it is in float64 and in nanoseconds.               *)
(***************************************************************************)
MaxDepth == 3

BracketPoints ==
    { InterpolationPoint(Pt(lat * PosScale, lon * PosScale), t * TimeScale) :
        lat \in {-1, 0, 2}, lon \in {0, 1}, t \in {10, 11, 13} }

InitClosestPoint ==
    /\ db = [trips |-> <<>>, serviceDays |-> {}]
    /\ cfg = [tzKnown |-> TRUE, dstDay |-> NumDates,
              DatabaseOutOfBoundsGraceDegrees |-> CoarseOutOfBoundsGrace]
    /\ query \in [kind : {"closestPoint"}, ip : BracketPoints, other : BracketPoints,
                  precisionDepth : 0..MaxDepth]
    /\ pc = "call"
    /\ search = newSearch(<<>>)
    /\ StartState

GetClosestPointWith ==
    /\ pc = "call"
    /\ query.kind = "closestPoint"
    /\ result' = << getClosestPointWith(query.ip, query.other, query.precisionDepth) >>
    /\ pc' = "returned"
    /\ UNCHANGED <<inputs, build, loader, search, dateToServices, possibleTrips, allSegments,
                   segIdx, nm, tripIdx, serviceToSights, outcomes, err>>

NextClosestPoint == GetClosestPointWith

SpecClosestPoint == InitClosestPoint /\ [][NextClosestPoint]_vars

\* getPositionAt on its own: the trips keep their stop times in the order
\* of their times, every one with its arrival and its departure; a hop may
\* take no time, and so may a stop.  The instants are half units.
PositionTrips ==
    { Trip("f2", "Y", "s2", RouteTypeHeavyRail, DwellTimetable(path, 10, hop, dwell)) :
        path \in CoarsePaths, hop \in {0, 1, 2}, dwell \in {0, 1} }

PositionInstants == { k * (TimeScale \div 2) : k \in 18..36 }

InitPosition ==
    /\ db = [trips |-> <<>>, serviceDays |-> {}]
    /\ cfg = [tzKnown |-> TRUE, dstDay |-> NumDates,
              DatabaseOutOfBoundsGraceDegrees |-> CoarseOutOfBoundsGrace]
    /\ query \in [kind : {"position"}, trip : PositionTrips, time : PositionInstants]
    /\ pc = "call"
    /\ search = newSearch(<<>>)
    /\ StartState

GetPositionAt ==
    /\ pc = "call"
    /\ query.kind = "position"
    /\ result' = << getPositionAt(query.trip, query.time) >>
    /\ pc' = "returned"
    /\ UNCHANGED <<inputs, build, loader, search, dateToServices, possibleTrips, allSegments,
                   segIdx, nm, tripIdx, serviceToSights, outcomes, err>>

NextPosition == GetPositionAt

SpecPosition == InitPosition /\ [][NextPosition]_vars

\* Every world
\* ---------------------------------------------------------------------------
\* LoadDatabase: the feed goroutines, the insert goroutines of addToDB, the
\* wrapper's mutex and WaitGroup, and the main routine that waits for them.
\* The state of the goroutines is kept in loader, the main routine's place in pc.

\* processFeed calls addToDB once per stage; the first MaxInserts stages are modelled.
MaxInserts == 2

\* config.Contents: two entries, each active or not; feedId is the index
LoaderConfigs == { <<[Active |-> a], [Active |-> b]>> : a, b \in BOOLEAN }

FeedIds == {1, 2}

InsertIds == FeedIds \X (1..MaxInserts)

\* mutexedDB.takeMutex is mutex.Lock, which returns once the mutex is free;
\* unmutexedDB.takeMutex returns at once
takeMutexNeverBlocks(l) == TRUE

takeMutexReady(l) == l.useMutex => ~l.mutex

takeMutex(l) == [l EXCEPT !.mutex = l.useMutex]

freeMutex(l) == [l EXCEPT !.mutex = FALSE]

\* unmutexedDB.takeMutex and unmutexedDB.freeMutex are empty: with that wrapper the
\* goroutine is at its insert as soon as it runs, and at wgDone as soon as it has inserted
afterGo(l) == IF l.useMutex THEN "takeMutex" ELSE "Create"

afterCreate(l) == IF l.useMutex THEN "freeMutex" ELSE "wgDone"

wgIncrement(l) == [l EXCEPT !.wg = @ + 1]

wgDone(l) == [l EXCEPT !.wg = @ - 1]

\* wg.Wait returns once the counter is zero
wgWaitNoBarrier(l) == TRUE

wgWait(l) == l.wg = 0

InitLoadDatabase ==
    /\ db = [trips |-> <<>>, serviceDays |-> {}]
    /\ cfg = [tzKnown |-> TRUE, dstDay |-> NumDates,
              DatabaseOutOfBoundsGraceDegrees |-> DatabaseOutOfBoundsGrace]
    /\ \E contents \in LoaderConfigs, useMutex \in BOOLEAN :
         query = [kind |-> "LoadDatabase", Contents |-> contents, useMutex |-> useMutex]
    /\ pc = "range"
    /\ search = newSearch(<<>>)
    /\ dateToServices = <<>>
    /\ possibleTrips = <<>>
    /\ allSegments = <<>>
    /\ segIdx = 1
    /\ nm = NewNetworkMap
    /\ tripIdx = 1
    /\ serviceToSights = <<>>
    /\ outcomes = <<>>
    /\ result = <<>>
    /\ err = FALSE
    /\ tm = {}
    /\ seen = {}
    /\ turn = NoCall
    /\ firstPass = NewNetworkMap
    /\ decomposition = NoTrajectory
    /\ loader = [loaded |-> FALSE, useMutex |-> query.useMutex, mutex |-> FALSE, wg |-> 0,
                 processingWg |-> 0, entry |-> 1, crashed |-> FALSE,
                 feeds |-> [f \in FeedIds |-> [pc |-> "idle", stage |-> 1, failed |-> FALSE]],
                 inserts |-> [g \in InsertIds |-> [pc |-> "idle", failed |-> FALSE]]]

LoadDatabaseUnchanged ==
    UNCHANGED <<inputs, build, dateToServices, possibleTrips, allSegments, segIdx, nm,
                tripIdx, serviceToSights, outcomes, search, result>>

\* for feedIdInt, configEntry := range config.Contents: an inactive entry is skipped,
\* an active one is counted in processingWg and gets its goroutine
StartFeed ==
    /\ query.kind = "LoadDatabase"
    /\ pc = "range"
    /\ ~loader.crashed
    /\ LET entry == loader.entry
           counted == IF query.Contents[entry].Active
                        THEN [loader EXCEPT !.processingWg = @ + 1,
                                            !.feeds[entry].pc = "processFeed"]
                        ELSE loader
       IN  /\ loader' = [counted EXCEPT !.entry = entry + 1]
           /\ pc' = IF entry = Len(query.Contents) THEN "processingWg.Wait" ELSE "range"
    /\ UNCHANGED err
    /\ LoadDatabaseUnchanged

\* processFeed before a stage's addToDB: the stage's parsing fails and processFeed
\* returns the error, or it succeeds and the stage calls addToDB
ParseStage(f) ==
    /\ query.kind = "LoadDatabase"
    /\ ~loader.crashed
    /\ loader.feeds[f].pc = "processFeed"
    /\ \E failed \in BOOLEAN :
         loader' = [loader EXCEPT !.feeds[f].failed = failed,
                                  !.feeds[f].pc = IF failed THEN "processingWg.Done"
                                                  ELSE "wgIncrement"]
    /\ UNCHANGED <<pc, err>>
    /\ LoadDatabaseUnchanged

\* addToDB: scdb.wgIncrement(), in the feed's goroutine
WgIncrement(f) ==
    /\ query.kind = "LoadDatabase"
    /\ ~loader.crashed
    /\ loader.feeds[f].pc = "wgIncrement"
    /\ loader' = [wgIncrement(loader) EXCEPT !.feeds[f].pc = "go"]
    /\ UNCHANGED <<pc, err>>
    /\ LoadDatabaseUnchanged

\* addToDB: go func(...), then return nil; processFeed goes on to its next stage or returns
GoInsert(f) ==
    /\ query.kind = "LoadDatabase"
    /\ ~loader.crashed
    /\ loader.feeds[f].pc = "go"
    /\ LET stage == loader.feeds[f].stage
       IN  loader' = [loader EXCEPT !.inserts[<<f, stage>>].pc = afterGo(loader),
                                    !.feeds[f].stage = stage + 1,
                                    !.feeds[f].pc = IF stage = MaxInserts
                                                      THEN "processingWg.Done"
                                                      ELSE "processFeed"]
    /\ UNCHANGED <<pc, err>>
    /\ LoadDatabaseUnchanged

\* the feed goroutine's deferred processingWg.Done(), before its panic if processFeed failed
ProcessingDone(f) ==
    /\ query.kind = "LoadDatabase"
    /\ ~loader.crashed
    /\ loader.feeds[f].pc = "processingWg.Done"
    /\ loader' = [loader EXCEPT !.processingWg = @ - 1,
                                !.feeds[f].pc = IF loader.feeds[f].failed THEN "panic"
                                                ELSE "done"]
    /\ UNCHANGED <<pc, err>>
    /\ LoadDatabaseUnchanged

\* scdb.takeMutex() in the insert goroutine
TakeMutex(g) ==
    /\ query.kind = "LoadDatabase"
    /\ ~loader.crashed
    /\ loader.inserts[g].pc = "takeMutex"
    /\ takeMutexReady(loader)
    /\ loader' = [takeMutex(loader) EXCEPT !.inserts[g].pc = "Create"]
    /\ UNCHANGED <<pc, err>>
    /\ LoadDatabaseUnchanged

\* db.Create(input).Error
Create(g) ==
    /\ query.kind = "LoadDatabase"
    /\ ~loader.crashed
    /\ loader.inserts[g].pc = "Create"
    /\ \E failed \in BOOLEAN :
         loader' = [loader EXCEPT !.inserts[g].failed = failed,
                                  !.inserts[g].pc = afterCreate(loader)]
    /\ UNCHANGED <<pc, err>>
    /\ LoadDatabaseUnchanged

\* the deferred scdb.freeMutex()
FreeMutex(g) ==
    /\ query.kind = "LoadDatabase"
    /\ ~loader.crashed
    /\ loader.inserts[g].pc = "freeMutex"
    /\ loader' = [freeMutex(loader) EXCEPT !.inserts[g].pc = "wgDone"]
    /\ UNCHANGED <<pc, err>>
    /\ LoadDatabaseUnchanged

\* the deferred scdb.wgDone()
WgDone(g) ==
    /\ query.kind = "LoadDatabase"
    /\ ~loader.crashed
    /\ loader.inserts[g].pc = "wgDone"
    /\ loader' = [wgDone(loader) EXCEPT !.inserts[g].pc = IF loader.inserts[g].failed
                                                            THEN "panic" ELSE "done"]
    /\ UNCHANGED <<pc, err>>
    /\ LoadDatabaseUnchanged

\* a panic that has run its goroutine's deferred calls ends the process
Panic ==
    /\ query.kind = "LoadDatabase"
    /\ ~loader.crashed
    /\ \/ \E f \in FeedIds : loader.feeds[f].pc = "panic"
       \/ \E g \in InsertIds : loader.inserts[g].pc = "panic"
    /\ loader' = [loader EXCEPT !.crashed = TRUE]
    /\ UNCHANGED <<pc, err>>
    /\ LoadDatabaseUnchanged

\* processingWg.Wait()
ProcessingWait ==
    /\ query.kind = "LoadDatabase"
    /\ ~loader.crashed
    /\ pc = "processingWg.Wait"
    /\ loader.processingWg = 0
    /\ pc' = "wgWait"
    /\ UNCHANGED <<loader, err>>
    /\ LoadDatabaseUnchanged

\* scdb.wgWait(); without the mutex the foreign keys are migrated next
WgWait ==
    /\ query.kind = "LoadDatabase"
    /\ ~loader.crashed
    /\ pc = "wgWait"
    /\ wgWait(loader)
    /\ pc' = IF loader.useMutex THEN "optimise" ELSE "migrate"
    /\ UNCHANGED <<loader, err>>
    /\ LoadDatabaseUnchanged

\* migrate(db, false): an error is returned
Migrate ==
    /\ query.kind = "LoadDatabase"
    /\ ~loader.crashed
    /\ pc = "migrate"
    /\ \E failed \in BOOLEAN :
         /\ err' = failed
         /\ pc' = IF failed THEN "returned" ELSE "optimise"
    /\ UNCHANGED loader
    /\ LoadDatabaseUnchanged

\* session.Exec(sqlString) of the bounding-box optimisation, then return
Optimise ==
    /\ query.kind = "LoadDatabase"
    /\ ~loader.crashed
    /\ pc = "optimise"
    /\ \E failed \in BOOLEAN : err' = failed
    /\ pc' = "returned"
    /\ UNCHANGED loader
    /\ LoadDatabaseUnchanged

FeedStep(f) == ParseStage(f) \/ WgIncrement(f) \/ GoInsert(f) \/ ProcessingDone(f)

InsertStep(g) == TakeMutex(g) \/ Create(g) \/ FreeMutex(g) \/ WgDone(g)

NextLoadDatabase ==
    \/ StartFeed
    \/ \E f \in FeedIds : FeedStep(f)
    \/ \E g \in InsertIds : InsertStep(g)
    \/ Panic
    \/ ProcessingWait
    \/ WgWait
    \/ Migrate
    \/ Optimise

SpecLoadDatabase == InitLoadDatabase /\ [][NextLoadDatabase]_vars

\* The Go scheduler does not leave every goroutine that can run waiting forever.
FairLoadDatabase == WF_vars(NextLoadDatabase)

SpecLoadDatabaseFair == InitLoadDatabase /\ [][NextLoadDatabase]_vars /\ FairLoadDatabase

\* ---------------------------------------------------------------------------
\* readCsv: the feed goroutines' calls share maxCsvBytes, usedCsvBytes and
\* csvBytesMutex.  Each goroutine makes its calls one after the other.

\* Sizes of the csv files, in bytes, and readCsv calls of one goroutine
MaxCsvBytes == 2

MaxReads == 2

\* for usedCsvBytes+currentCsvBytes > maxCsvBytes
mustWaitNever(l, currentCsvBytes) == FALSE

mustWait(l, currentCsvBytes) == l.usedCsvBytes + currentCsvBytes > l.maxCsvBytes

NoCsvCall == [pc |-> "idle", opened |-> FALSE, currentCsvBytes |-> 0, reads |-> 0,
              added |-> 0, subtracted |-> 0, slept |-> FALSE, failed |-> FALSE]

InitReadCsv ==
    /\ db = [trips |-> <<>>, serviceDays |-> {}]
    /\ cfg = [tzKnown |-> TRUE, dstDay |-> NumDates,
              DatabaseOutOfBoundsGraceDegrees |-> DatabaseOutOfBoundsGrace]
    /\ query = [kind |-> "readCsv"]
    /\ pc = "readCsv"
    /\ search = newSearch(<<>>)
    /\ dateToServices = <<>>
    /\ possibleTrips = <<>>
    /\ allSegments = <<>>
    /\ segIdx = 1
    /\ nm = NewNetworkMap
    /\ tripIdx = 1
    /\ serviceToSights = <<>>
    /\ outcomes = <<>>
    /\ result = <<>>
    /\ err = FALSE
    /\ tm = {}
    /\ seen = {}
    /\ turn = NoCall
    /\ firstPass = NewNetworkMap
    /\ decomposition = NoTrajectory
    /\ loader = [loaded |-> FALSE, maxCsvBytes |-> 0, usedCsvBytes |-> 0,
                 csvBytesMutex |-> FALSE, calls |-> [r \in FeedIds |-> NoCsvCall]]

ReadCsvUnchanged ==
    UNCHANGED <<inputs, build, pc, err, dateToServices, possibleTrips, allSegments, segIdx, nm,
                tripIdx, serviceToSights, outcomes, search, result>>

\* zipFile.Open, file.Stat: an error returns before any accounting, else the size is known
OpenCsv(r) ==
    /\ query.kind = "readCsv"
    /\ loader.calls[r].pc \in {"idle", "returned"}
    /\ loader.calls[r].reads < MaxReads
    /\ \/ loader' = [loader EXCEPT !.calls[r] =
                        [NoCsvCall EXCEPT !.reads = loader.calls[r].reads + 1,
                                          !.failed = TRUE, !.pc = "returned"]]
       \/ \E currentCsvBytes \in 0..MaxCsvBytes :
            loader' = [loader EXCEPT !.calls[r] =
                        [NoCsvCall EXCEPT !.reads = loader.calls[r].reads + 1,
                                          !.opened = TRUE,
                                          !.currentCsvBytes = currentCsvBytes,
                                          !.pc = "Lock"]]
    /\ ReadCsvUnchanged

\* csvBytesMutex.Lock(); maxCsvBytes = max(maxCsvBytes, currentCsvBytes)
LockCsvBytes(r) ==
    /\ query.kind = "readCsv"
    /\ loader.calls[r].pc = "Lock"
    /\ ~loader.csvBytesMutex
    /\ loader' = [loader EXCEPT !.csvBytesMutex = TRUE,
                                !.maxCsvBytes = MaxOf({@, loader.calls[r].currentCsvBytes}),
                                !.calls[r].pc = "for"]
    /\ ReadCsvUnchanged

\* One test of the loop, holding the mutex: unlock and sleep, or add the size,
\* register the deferred subtraction and unlock
AddOrSleep(r) ==
    /\ query.kind = "readCsv"
    /\ loader.calls[r].pc = "for"
    /\ LET currentCsvBytes == loader.calls[r].currentCsvBytes
       IN  loader' = IF mustWait(loader, currentCsvBytes)
                       THEN [loader EXCEPT !.csvBytesMutex = FALSE, !.calls[r].slept = TRUE,
                                           !.calls[r].pc = "Sleep"]
                       ELSE [loader EXCEPT !.usedCsvBytes = @ + currentCsvBytes,
                                           !.csvBytesMutex = FALSE,
                                           !.calls[r].added = @ + 1,
                                           !.calls[r].pc = "unmarshalCsv"]
    /\ ReadCsvUnchanged

\* time.Sleep, then csvBytesMutex.Lock() again
LockAfterSleep(r) ==
    /\ query.kind = "readCsv"
    /\ loader.calls[r].pc = "Sleep"
    /\ ~loader.csvBytesMutex
    /\ loader' = [loader EXCEPT !.csvBytesMutex = TRUE, !.calls[r].pc = "for"]
    /\ ReadCsvUnchanged

\* unmarshalCsv: the content, or an error; either way the deferred function runs next
UnmarshalCsv(r) ==
    /\ query.kind = "readCsv"
    /\ loader.calls[r].pc = "unmarshalCsv"
    /\ \E failed \in BOOLEAN :
         loader' = [loader EXCEPT !.calls[r].failed = failed, !.calls[r].pc = "defer"]
    /\ ReadCsvUnchanged

\* the deferred function: csvBytesMutex.Lock()
LockDeferred(r) ==
    /\ query.kind = "readCsv"
    /\ loader.calls[r].pc = "defer"
    /\ ~loader.csvBytesMutex
    /\ loader' = [loader EXCEPT !.csvBytesMutex = TRUE, !.calls[r].pc = "subtract"]
    /\ ReadCsvUnchanged

\* usedCsvBytes -= currentCsvBytes, the deferred Unlock, and readCsv returns
SubtractCsvBytes(r) ==
    /\ query.kind = "readCsv"
    /\ loader.calls[r].pc = "subtract"
    /\ loader' = [loader EXCEPT !.usedCsvBytes = @ - loader.calls[r].currentCsvBytes,
                                !.csvBytesMutex = FALSE,
                                !.calls[r].subtracted = @ + 1,
                                !.calls[r].pc = "returned"]
    /\ ReadCsvUnchanged

readCsv(r) ==
    \/ OpenCsv(r)
    \/ LockCsvBytes(r)
    \/ AddOrSleep(r)
    \/ LockAfterSleep(r)
    \/ UnmarshalCsv(r)
    \/ LockDeferred(r)
    \/ SubtractCsvBytes(r)

NextReadCsv == \E r \in FeedIds : readCsv(r)

SpecReadCsv == InitReadCsv /\ [][NextReadCsv]_vars

Init == InitSight \/ InitMoving \/ InitNetwork \/ InitLoader \/ InitClosestPoint \/ InitPosition
          \/ InitLoadDatabase \/ InitReadCsv

Next == NextSight \/ NextMoving \/ NextNetwork \/ NextLoader \/ NextClosestPoint \/ NextPosition
          \/ NextLoadDatabase \/ NextReadCsv

Spec == Init /\ [][Next]_vars

\* The two queries for sights alone
SpecQueries == (InitSight \/ InitMoving) /\ [][NextSight \/ NextMoving]_vars

(***************************************************************************)
(* Properties of the stationary query.                                     *)
(***************************************************************************)
\* outcomes[k] is what the detector returned for possibleTrips[k], whose
\* stop times are in the order getSegments left them.
pairTrajectory(t, i) == decomposeTripSegment(nm, getSegments(t).segments[i - 1])

\* The bearing seen from P swings by 150 degrees or more along the segment
SwingAtLeastMax(seg) ==
    LET u == BearingVec(GetPoint(seg.source), ObsPoint)
        v == BearingVec(GetPoint(seg.target), ObsPoint)
    IN Dot(u, v) < 0 /\ 4 * Dot(u, v) * Dot(u, v) >= 3 * NormSq(u) * NormSq(v)

WithinRadius(stop, radius) == DistSq(GetPoint(stop), ObsPoint) < radius * radius

\* Some sub-segment has the swing, or an endpoint of a sub-segment is
\* within the radius
SubSegmentCriterion(trajectory, radius) ==
    \E k \in DOMAIN trajectory :
        \/ SwingAtLeastMax(trajectory[k])
        \/ WithinRadius(trajectory[k].source, radius)
        \/ WithinRadius(trajectory[k].target, radius)

\* ... or the arrival stop of the pair itself is within the radius
PairCriterion(t, i, radius) ==
    \/ SubSegmentCriterion(pairTrajectory(t, i).segs, radius)
    \/ WithinRadius(t.StopTimes[i].Stop, radius)

\* The detector's answers are those of a walk over the stop pairs that
\* declares a sight at the first pair meeting Crit, fails when a pair has no
\* decomposition or the pair meeting Crit lacks a time, and else reports nothing.
DecisionMatches(Crit(_, _)) ==
    \A k \in DOMAIN outcomes :
        LET t == possibleTrips[k]
            o == outcomes[k]
            n == Len(t.StopTimes)
            ok(i) == pairTrajectory(t, i).status = "ok"
            timed(i) == ~ getTimesWith(t.StopTimes[i - 1], t.StopTimes[i]).err
            passed(i) == \A j \in 2..(i - 1) : ok(j) /\ ~ Crit(t, j)
        IN isRailType(t.RouteType) /\ o.kind \in {"sight", "none", "err"} =>
             /\ o.kind = "sight" =>
                  \E i \in 2..n : /\ o.sight.StBefore = t.StopTimes[i - 1]
                                  /\ o.sight.StAfter = t.StopTimes[i]
                                  /\ passed(i) /\ ok(i) /\ Crit(t, i) /\ timed(i)
             /\ o.kind = "none" => passed(n + 1)
             /\ o.kind = "err" =>
                  \E i \in 2..n : passed(i) /\ (~ ok(i) \/ (Crit(t, i) /\ ~ timed(i)))

\* The trip as the database holds it, its stop times in stop-sequence order
dbTrip(t) == CHOOSE x \in Range(db.trips) : x.FeedId = t.FeedId /\ x.TripId = t.TripId

\* The pair (a, b) of stop times qualifies under the detector's test
Qualifies(t, a, b) ==
    LET d == decomposeTripSegment(nm, Segment(a.Stop, b.Stop, 0))
    IN d.status = "ok" /\ pairSubSegment(t, ObsPoint, b, d.segs) # 0

HasUntimedStopTime(t) ==
    \E st \in Range(t.StopTimes) : IsZero(st.ArrivalTime) /\ IsZero(st.DepartureTime)

Returned == pc \in {"done", "error"}

\* The record the cross-reference makes of the sight s on the service date d
recordOf(s, d) == updateInnerDates(RealTrainSight(s, d), cfg.dstDay)

\* C2: GetRealTrainSights returns exactly one record for every detected
\* sight and date for which a ServiceDay row of the sight's feed and service
\* was returned, and none for a date without such a row.
C2_OneRecordPerSightAndServiceDay ==
    pc = "done" =>
      \A k \in DOMAIN serviceToSights, d \in Dates :
        LET s == serviceToSights[k]
            rows == { r \in ServicesBetweenDates(query.startDate, query.endDate) :
                        r.Date = d /\ r.FeedId = s.FeedId /\ r.ServiceId = s.ServiceId }
            recs == { i \in DOMAIN result : result[i] = recordOf(s, d) }
        IN Cardinality(recs) = Cardinality(rows)

\* Two sights of different feeds, and a date on which only one of the two
\* services has a row
C2_Witness ==
    /\ pc = "done"
    /\ Len(serviceToSights) = 2
    /\ Len(result) >= 2
    /\ \E d \in DOMAIN dateToServices :
         /\ sightService(serviceToSights[1]) \in Range(dateToServices[d])
         /\ sightService(serviceToSights[2]) \notin Range(dateToServices[d])

\* C3: the detector returns at most one sight per trip, and its
\* StBefore/StAfter bracket is the earliest consecutive pair, in the trip's
\* stop-sequence order, that qualifies.
C3_EarliestPairInStopSequence ==
    \A k \in DOMAIN outcomes :
        outcomes[k].kind = "sight" =>
          LET s == outcomes[k].sight
              orig == dbTrip(possibleTrips[k]).StopTimes
          IN /\ s.StAfter.StopSequence = s.StBefore.StopSequence + 1
             /\ \A j \in 1..(s.StBefore.StopSequence - 1) :
                    ~ Qualifies(possibleTrips[k], orig[j], orig[j + 1])

RadiusOfRouteType(t) ==
    IF t.RouteType = RouteTypeTram THEN CloseTramStationThreshold
    ELSE CloseHeavyRailStationThreshold

\* C5: the proximity radius applied depends on the route type:
\* CloseHeavyRailStationThreshold for heavy rail, CloseTramStationThreshold
\* for trams.
C5_RadiusByRouteType ==
    DecisionMatches(LAMBDA t, i : PairCriterion(t, i, RadiusOfRouteType(t)))

\* C10: when a candidate rail trip has a stop time with neither arrival nor
\* departure time, GetRealTrainSights returns an error and no sights.
C10_UntimedStopTimeAborts ==
    (Returned /\ \E t \in Range(possibleTrips) :
                     isRailType(t.RouteType) /\ HasUntimedStopTime(t))
        => (pc = "error" /\ err /\ result = <<>>)


(***************************************************************************)
(* Properties of the moving query.                                         *)
(***************************************************************************)
\* The candidate's window [first departure, last arrival] lies more than
\* the grace before, or more than the grace after, the reference trip's
\* window shifted by the lateness
ApartBeyondGrace(referenceTrip, possibleTrip, lateness) ==
    \/ Last(possibleTrip.StopTimes).ArrivalTime + TIME_GRACE
           < referenceTrip.StopTimes[1].DepartureTime + lateness
    \/ possibleTrip.StopTimes[1].DepartureTime
           > Last(referenceTrip.StopTimes).ArrivalTime + lateness + TIME_GRACE

\* C6: getPossibleMovingSight reports no sight when the candidate's window
\* and the delayed window of the reference trip do not overlap even with
\* the 5-minute grace.
C6_NoSightWhenWindowsApart ==
    \A k \in DOMAIN outcomes :
        ApartBeyondGrace(query.trip, possibleTrips[k], query.lateTime)
            => outcomes[k].kind = "none"

\* A candidate that ends more than the grace before the delayed reference
\* trip starts, although it would not without the delay, and was rejected
C6_Witness ==
    \E k \in DOMAIN outcomes :
        /\ ApartBeyondGrace(query.trip, possibleTrips[k], query.lateTime)
        /\ ~ ApartBeyondGrace(query.trip, possibleTrips[k], 0)
        /\ Last(possibleTrips[k].StopTimes).ArrivalTime
               < query.trip.StopTimes[1].DepartureTime
        /\ outcomes[k].kind = "none"

\* C7: the position of an emitted sight is the candidate trip's
\* interpolated position at the found instant (the reference trip's
\* position under the search's lateness plus candidate minus reference).
C7_PositionIsCandidatePosition ==
    \A k \in DOMAIN outcomes :
        outcomes[k].kind = "sight" =>
            outcomes[k].sight.PassingInterPoint.Position
                = getPositionAt(possibleTrips[k], outcomes[k].sight.PassingInterPoint.Time)

\* C8: GetSightsFromTrip returns no sight of the reference trip itself.
C8_NeverTheReferenceTrip ==
    pc = "done" =>
        \A i \in DOMAIN result :
            ~ (/\ result[i].MovingTrainSight.FeedId = query.trip.FeedId
               /\ result[i].MovingTrainSight.TripId = query.trip.TripId)

\* C9: against a retained minimum, a moving-candidate minimum replaces a
\* stationary one unless its squared distance is worse by more than the
\* factor 4, and a stationary-candidate minimum replaces a moving one
\* exactly when it is better by more than the factor 4.
C9_PreferMovingByFactorFour ==
    LET t == search.last
    IN (t.evaluated /\ t.retainedBefore) =>
         /\ (t.lowestWasAtEnd /\ ~ t.possibleTripIsAtEnd) =>
                (t.replaced <=> ~ (t.currentDistSquared > 4 * t.lowestDistSquaredBefore))
         /\ (~ t.lowestWasAtEnd /\ t.possibleTripIsAtEnd) =>
                (t.replaced <=> 4 * t.currentDistSquared < t.lowestDistSquaredBefore)

(***************************************************************************)
(* Properties of both queries.                                             *)
(***************************************************************************)
\* C1: the slice returned by GetRealTrainSights, and the slice returned by
\* GetSightsFromTrip, is in non-decreasing order of the final Timestamp.
C1_SortedByTimestamp ==
    pc = "done" =>
        \A i, j \in DOMAIN result : i < j => result[i].Timestamp <= result[j].Timestamp

\* A stationary query across the start of summer time whose records, as the
\* cross-reference appended them, were not in the order of their timestamps
C1_Witness ==
    /\ pc = "done"
    /\ query.kind = "stationary"
    /\ cfg.dstDay = 0
    /\ \E dateOrder \in Perms(DOMAIN dateToServices) :
         LET appended == crossReference(dateOrder, dateToServices, serviceToSights,
                                        cfg.dstDay)
         IN /\ SortByTimestamp(appended) = result
            /\ \E i \in 1..(Len(appended) - 1) :
                 appended[i].Timestamp > appended[i + 1].Timestamp

(***************************************************************************)
(* Properties of the time-zone check and of the network map.               *)
(***************************************************************************)
\* C11: with an unknown time zone name GetRealTrainSights returns the error
\* before it fetches service days or candidate trips and before it
\* evaluates any trip.
C11_TimeZoneCheckedFirst ==
    ~ cfg.tzKnown =>
        /\ pc \in {"services", "error"}
        /\ dateToServices = <<>>
        /\ possibleTrips = <<>>
        /\ outcomes = <<>>

\* The consecutive-stop segments of the candidate trips, as the detector
\* gets them from getSegments
TripSegmentsOf(trips) == UNION { Range(getSegments(trips[i]).segments) : i \in DOMAIN trips }

\* The network map of the query is built
MapIsBuilt == pc \in {"detect", "cross", "done", "built"}

\* The trip segments the map was built from
BuiltFrom == IF query.kind = "network" THEN seen ELSE TripSegmentsOf(possibleTrips)

\* C12: on the map NewNetworkMapFromTrips built from the candidate trips,
\* decomposeTripSegment finds an edge and returns a decomposition without
\* error for every consecutive-stop segment of every candidate trip, in
\* either direction of travel, merged stops included.
C12_EveryTripSegmentDecomposes ==
    MapIsBuilt =>
        \A seg \in BuiltFrom :
            /\ decomposeTripSegment(nm, seg).status = "ok"
            /\ decomposeTripSegment(nm, reversed(seg)).status = "ok"

\* A duration of ns nanoseconds is within one nanosecond of t time units
WithinOneOf(ns, t) ==
    \E d \in {-1, 0, 1} : ns + d >= 0 /\ BigOfInt(ns + d) = DurationNs(t)

\* C13: when decomposeTripSegment has decomposed a segment of one of the
\* trips the map was built from, the travel times the detector rescales
\* (share times the segment's travel time over the decomposed total, as
\* 64-bit nanosecond durations) sum to the segment's travel time, give or
\* take one unit of the duration type.
C13_NormalisedTimesSumToOriginal ==
    (decomposition.decomposed /\ decomposition.status = "ok") =>
        WithinOneOf(SumSeq(decomposition.normalised),
                    decomposition.currentSegment.travelTime)

\* segs is a chain of segments from the stop source to the stop target
IsChainBetween(segs, source, target) ==
    /\ segs # <<>>
    /\ segs[1].source = source
    /\ segs[Len(segs)].target = target
    /\ \A i \in 1..(Len(segs) - 1) : segs[i].target = segs[i + 1].source

\* C14: the list decomposeTripSegment returns for a hop of a trip is a
\* contiguous chain in the hop's direction of travel: it starts at the
\* parent of the hop's source stop, ends at the parent of its target stop,
\* and each segment starts where the one before it ends.
C14_DecompositionIsChainInDirection ==
    (decomposition.decomposed /\ decomposition.status = "ok") =>
        IsChainBetween(decomposition.segs,
            ParentStop(nm, nm.CityAssociations[decomposition.currentSegment.source.StopId]),
            ParentStop(nm, nm.CityAssociations[decomposition.currentSegment.target.StopId]))

\* The edges of a map and their weights, compositions left out
EdgeWeights(map) == { [ends |-> e.ends, weight |-> e.weight] : e \in map.Edges }

\* C15: while the segment list of the first pass is processed a second
\* time, in the same order, on the map the first pass returned, the graph
\* keeps the edges and the weights the first pass gave it.
C15_SecondPassKeepsEdgesAndWeights ==
    pc = "pass2" => EdgeWeights(nm) = EdgeWeights(firstPass)

\* A second pass that is over, on a map with a composite edge, an edge
\* shared by two stop pairs chosen from different travel times, and a
\* composition the second pass changed
C15_Witness ==
    /\ pc = "pass2"
    /\ segIdx > Len(allSegments)
    /\ \E e \in nm.Edges : e.data # <<>>
    /\ \E s1, s2 \in Range(allSegments) :
         /\ s1.travelTime # s2.travelTime
         /\ { nm.CityAssociations[s1.source.StopId], nm.CityAssociations[s1.target.StopId] }
              = { nm.CityAssociations[s2.source.StopId], nm.CityAssociations[s2.target.StopId] }
    /\ nm # firstPass

(***************************************************************************)
(* Properties of the loader                                                *)
(***************************************************************************)
\* How many rows of the date the loader wrote for the service s1
RowsOn(date) ==
    Len(SelectSeq(loader.serviceDays, LAMBDA row : row = ServiceDay(date, "f1", "s1")))

\* A feed with a working-day calendar and one exception, which
\* removes the service on a Wednesday of the calendar's range
RemovedWednesday ==
    /\ query.kind = "load"
    /\ query.calendars[1].Monday /\ ~ query.calendars[1].Saturday
    /\ Len(query.calendarDates) = 1
    /\ query.calendarDates[1].ServiceId = "s1"
    /\ query.calendarDates[1].ExceptionType = ExceptionTypeServiceRemoved
    /\ Weekday(query.calendarDates[1].Date) = "Wednesday"
    /\ query.calendarDates[1].Date \in
         query.calendars[1].StartDate .. query.calendars[1].EndDate

\* C16: for a Monday-to-Friday calendar with one Wednesday removed by an
\* exception, calculateServiceDays writes no row for that Wednesday and
\* exactly one row for every other working day from the calendar's start
\* date to its end date, both included (and none for the other days).
C16_WorkingDaysButRemovedWednesday ==
    (RemovedWednesday /\ loader.loaded) =>
        \A date \in query.calendars[1].StartDate .. query.calendars[1].EndDate :
            RowsOn(date) = IF date = query.calendarDates[1].Date THEN 0
                           ELSE IF Weekday(date) \in WorkingDays THEN 1
                           ELSE 0

(***************************************************************************)
(* Properties of the graph's edges and of the trip map                     *)
(***************************************************************************)
\* C17: whatever processSegment calls were made, two parent stops have at
\* most one edge between them, found from either end, and the call just
\* made left every edge in place with a weight no greater than it had.
C17_OneEdgePerPairNeverHeavier ==
    /\ \A e1, e2 \in nm.Edges : e1.ends = e2.ends => e1 = e2
    /\ turn.called =>
         \A e \in turn.before.Edges :
            \E f \in turn.after.Edges : f.ends = e.ends /\ f.weight <= e.weight

\* A processSegment call that lowered the weight of an edge
C17_Witness ==
    /\ turn.called
    /\ HasEdge(turn.before, turn.seg.source.StopId, turn.seg.target.StopId)
    /\ GraphEdge(turn.after, turn.seg.source.StopId, turn.seg.target.StopId).weight
         < GraphEdge(turn.before, turn.seg.source.StopId, turn.seg.target.StopId).weight
    /\ Cardinality(nm.Edges) >= 2

\* The two stops of a segment, whatever its direction
StopPair(seg) == {seg.source.StopId, seg.target.StopId}

\* C18: after any sequence of updateSegment calls the trip map has exactly
\* one entry for every unordered pair of stops it was given a segment of
\* (never both directions), and the entry's travel time is the least of
\* the travel times given for the pair, in either direction.
C18_OneEntryPerPairWithMinimumTime ==
    query.kind = "network" =>
        /\ \A e \in tm : \E seg \in seen : StopPair(seg) = StopPair(e)
        /\ \A seg \in seen :
              /\ Cardinality({ e \in tm : StopPair(e) = StopPair(seg) }) = 1
              /\ \A e \in tm :
                    StopPair(e) = StopPair(seg) =>
                        /\ e.travelTime <= seg.travelTime
                        /\ \E given \in seen : /\ StopPair(given) = StopPair(e)
                                               /\ given.travelTime = e.travelTime

\* The smaller of two weights
MinWeight(a, b) == IF a < b THEN a ELSE b

\* C19: when processSegment is given a segment whose two parent stops
\* already have an edge, the call leaves the edge's composition as it was
\* and makes its weight the smaller of the weight it had and the segment's
\* travel time, whatever other paths join the two stops.
C19_DirectEdgeKeepsComposition ==
    (turn.called /\ HasEdge(turn.before, turn.seg.source.StopId, turn.seg.target.StopId)) =>
        LET old == GraphEdge(turn.before, turn.seg.source.StopId, turn.seg.target.StopId)
            new == GraphEdge(turn.after, turn.seg.source.StopId, turn.seg.target.StopId)
        IN /\ new.data = old.data
           /\ new.weight = MinWeight(old.weight, turn.seg.travelTime)

\* The segments of a path of the map and their total weight
SegmentsAlong(map, path) ==
    [i \in 1..(Len(path) - 1) |->
        Segment(ParentStop(map, path[i]), ParentStop(map, path[i + 1]),
                GraphEdge(map, path[i], path[i + 1]).weight)]
WeightAlong(map, path) ==
    SumSeq([i \in 1..(Len(path) - 1) |-> GraphEdge(map, path[i], path[i + 1]).weight])

\* C20: when the shortest path between the two parent stops has more than
\* one edge, processSegment makes the edge elementary (no composition)
\* exactly when the segment's travel time is more than 1.66 times the
\* path's total weight, and otherwise stores the path's segments, in
\* order, as the edge's composition.
C20_ElementaryWhenSegmentFarSlower ==
    (turn.called /\ Len(turn.path) > 2) =>
        LET new == GraphEdge(turn.after, turn.seg.source.StopId, turn.seg.target.StopId)
        IN IF turn.seg.travelTime * 100 > WeightAlong(turn.before, turn.path) * 166
           THEN new.data = <<>>
           ELSE new.data = SegmentsAlong(turn.before, turn.path)

(***************************************************************************)
(* Properties of the decomposition and of the parent stops                 *)
(***************************************************************************)
\* decomposeGraphSegment for an edge of the map, from either of its ends
EdgeDecompositions(map, e) ==
    { decomposeGraphSegment(map, << Segment(ParentStop(map, p[1]), ParentStop(map, p[2]),
                                            e.weight) >>, <<>>) :
        p \in { q \in e.ends \X e.ends : {q[1], q[2]} = e.ends } }

\* C21: on every map NewNetworkMapFromTrips returns, decomposeGraphSegment
\* terminates on every edge and returns only segments whose edge has no
\* composition: the compositions never refer to one another in a cycle,
\* also when several stop pairs share a pair of parent stops.
C21_DecompositionTerminatesOnEveryEdge ==
    (query.kind = "network" /\ pc = "built") =>
        \A e \in nm.Edges :
            \A d \in EdgeDecompositions(nm, e) :
                /\ d.status = "ok"
                /\ \A i \in DOMAIN d.segs :
                      GraphEdge(nm, d.segs[i].source.StopId, d.segs[i].target.StopId).data = <<>>

\* The stops of the segments processSegment has been called with
StopsProcessed ==
    UNION { {allSegments[i].source, allSegments[i].target} :
              i \in 1..(IF pc \in {"pass1"} THEN segIdx - 1 ELSE Len(allSegments)) }

\* C22: whatever EnsureCloseStopInGraph and processSegment calls were made,
\* every stop seen has exactly one parent stop, every parent stop is a
\* vertex of the graph and its own parent, the vertices are the parent
\* stops only, and no two of them are less than DIST_THRESHOLD apart (a
\* stop that close to a parent stop was not made a vertex).
C22_ParentStopsApartAndOwnParents ==
    (query.kind = "network" /\ pc # "feed") =>
        /\ \A stop \in StopsProcessed :
              /\ Contains(nm, stop)
              /\ Cardinality({ p \in nm.ParentStops :
                                 p.StopId = nm.CityAssociations[stop.StopId] }) = 1
        /\ \A p \in nm.ParentStops :
              /\ p.StopId \in nm.Vertices
              /\ Contains(nm, p)
              /\ nm.CityAssociations[p.StopId] = p.StopId
        /\ nm.Vertices = { p.StopId : p \in nm.ParentStops }
        /\ \A p, q \in nm.ParentStops :
              p # q => ~ DistLess(GetPoint(p), GetPoint(q), DIST_THRESHOLD)

\* A map returned with three vertices and a stop merged into another's
\* parent
C22_Witness ==
    /\ query.kind = "network"
    /\ pc = "built"
    /\ Cardinality(nm.Vertices) >= 3
    /\ \E stop \in StopsProcessed : nm.CityAssociations[stop.StopId] # stop.StopId

(***************************************************************************)
(* Properties of the moving detector's search                              *)
(***************************************************************************)
\* C23: whenever the loop of getPossibleMovingSight evaluates an instant,
\* the previous interpolation set is the one of the instant just before
\* it in the sorted list of both trips' instants, also when instants were
\* skipped for lying outside the grace window.
C23_BracketsAreConsecutiveInstants ==
    (query.kind = "moving" /\ search.last.evaluated) =>
        search.last.previousTime = search.allRefTimes[search.i - 2]

\* C24: the minimum getPossibleMovingSight retains is the least over the
\* instant pairs evaluated: a retained minimum is never replaced by the
\* minimum of a bracket of the same kind (candidate moving, or candidate
\* standing) that has a larger squared distance, also when the retained
\* squared distance is 0.
C24_RetainedMinimumNeverGrows ==
    (/\ query.kind = "moving"
     /\ search.last.evaluated
     /\ search.last.retainedBefore
     /\ search.last.replaced
     /\ search.last.possibleTripIsAtEnd = search.last.lowestWasAtEnd) =>
        search.last.currentDistSquared <= search.last.lowestDistSquaredBefore

\* t lies between the instants a and b, whichever is the earlier
TimeBetween(t, a, b) == (a <= t /\ t <= b) \/ (b <= t /\ t <= a)

\* C25: getClosestPointWith(a, b, depth) halves the bracket depth times and
\* returns the midpoint of the last bracket; at each halving the midpoint
\* takes the place of the bound with the larger squared distance (of ip
\* when the two are equal), and the instant of the point returned lies
\* between those of a and b.
C25_BisectionHalvesTowardsNearerBound ==
    (query.kind = "closestPoint" /\ pc = "returned") =>
        LET calls == closestPointCalls(query.ip, query.other, query.precisionDepth)
        IN /\ Len(calls) = query.precisionDepth + 1
           /\ \A k \in 1..(Len(calls) - 1) :
                 LET mid == getHalfwayPointWith(calls[k].ip, calls[k].other)
                 IN IF getAbsDistSquared(calls[k].other) > getAbsDistSquared(calls[k].ip)
                    THEN calls[k + 1].ip = calls[k].ip /\ calls[k + 1].other = mid
                    ELSE calls[k + 1].ip = mid /\ calls[k + 1].other = calls[k].other
           /\ result = << getHalfwayPointWith(calls[Len(calls)].ip, calls[Len(calls)].other) >>
           /\ TimeBetween(result[1].Time, query.ip.Time, query.other.Time)

\* A call of depth MaxDepth on two bounds at different distances and at
\* different instants, returning a point that is neither bound's
C25_Witness ==
    /\ query.kind = "closestPoint"
    /\ pc = "returned"
    /\ query.precisionDepth = MaxDepth
    /\ getAbsDistSquared(query.ip) > getAbsDistSquared(query.other)
    /\ query.ip.Time < query.other.Time
    /\ result[1].Time > query.ip.Time
    /\ result[1].Time < query.other.Time

\* The trip is under way between stop time k - 1 and stop time k at t
UnderWay(trip, k, t) ==
    /\ ~ Before(t, Fine(trip.StopTimes[k - 1].DepartureTime))
    /\ Before(t, Fine(trip.StopTimes[k].ArrivalTime))

\* C26: for a trip whose stop times are in the order of their times, all
\* set, getPositionAt(t) is the first stop's position before the first
\* departure, the last stop's from the last arrival on, a stop's while the
\* trip stands there, and otherwise the point at the fraction
\* (t - departure before) / (arrival after - departure before) of the way
\* between the two stops around t; that fraction is at least 0 and less
\* than 1 and its denominator is not 0.
C26_PositionIsPiecewiseLinear ==
    (query.kind = "position" /\ pc = "returned") =>
        LET trip == query.trip
            t == query.time
            n == Len(trip.StopTimes)
            place(k) == FinePoint(trip.StopTimes[k].Stop)
        IN /\ Before(t, Fine(trip.StopTimes[1].DepartureTime)) => result[1] = place(1)
           /\ ~ Before(t, Fine(trip.StopTimes[n].ArrivalTime)) => result[1] = place(n)
           /\ \A k \in 1..n :
                 (/\ ~ Before(t, Fine(trip.StopTimes[k].ArrivalTime))
                  /\ Before(t, Fine(trip.StopTimes[k].DepartureTime))) => result[1] = place(k)
           /\ \A k \in 2..n :
                 UnderWay(trip, k, t) =>
                    LET den == Fine(trip.StopTimes[k].ArrivalTime)
                                 - Fine(trip.StopTimes[k - 1].DepartureTime)
                        num == t - Fine(trip.StopTimes[k - 1].DepartureTime)
                    IN /\ den # 0
                       /\ 0 <= num /\ num < den
                       /\ (result[1].Lat - place(k - 1).Lat) * den
                            = num * (place(k).Lat - place(k - 1).Lat)
                       /\ (result[1].Lon - place(k - 1).Lon) * den
                            = num * (place(k).Lon - place(k - 1).Lon)

\* A call for an instant at which a three-stop trip that stands at its
\* stops is under way on its second hop, past the start of the hop
C26_Witness ==
    /\ query.kind = "position"
    /\ pc = "returned"
    /\ Len(query.trip.StopTimes) = 3
    /\ query.trip.StopTimes[2].ArrivalTime < query.trip.StopTimes[2].DepartureTime
    /\ UnderWay(query.trip, 3, query.time)
    /\ query.time > Fine(query.trip.StopTimes[2].DepartureTime)


\* The insert goroutines between the return of takeMutex and the end of freeMutex
HoldingMutex == { g \in InsertIds : loader.inserts[g].pc \in {"Create", "freeMutex"} }

\* C27: with the mutexed wrapper, at every moment at most one addToDB goroutine is
\* between taking and releasing the mutex, the mutex is locked exactly while one is,
\* and a goroutine waiting for the mutex gets it (or the process has ended by a panic).
C27_OneInsertAtATimeAndMutexReleased ==
    /\ [](loader.useMutex =>
            /\ Cardinality(HoldingMutex) <= 1
            /\ loader.mutex <=> HoldingMutex # {})
    /\ \A g \in InsertIds :
         (loader.useMutex /\ loader.inserts[g].pc = "takeMutex")
            ~> (loader.inserts[g].pc # "takeMutex" \/ loader.crashed)

\* One goroutine is inserting while another, of the other feed, waits for the mutex
C27_Witness ==
    /\ loader.useMutex
    /\ \E g \in HoldingMutex, h \in InsertIds :
         /\ loader.inserts[g].pc = "Create"
         /\ h[1] # g[1]
         /\ loader.inserts[h].pc = "takeMutex"

\* The feed goroutines that can still call addToDB
FeedsParsing ==
    { f \in FeedIds : loader.feeds[f].pc \in {"processFeed", "wgIncrement", "go"} }

\* The insert goroutines that have started and not yet run their deferred wgDone
InsertsRunning ==
    { g \in InsertIds : loader.inserts[g].pc \in {"takeMutex", "Create", "freeMutex", "wgDone"} }

\* C28: once wgWait has returned (the foreign keys are being migrated, the
\* optimisation SQL is running, or LoadDatabase has returned), no insert goroutine is
\* running, none is still to be started by a feed goroutine, and the main routine has
\* not left the range loop or processingWg.Wait before every entry was handled.
C28_OptimisationAfterEveryInsert ==
    pc \in {"migrate", "optimise", "returned"} =>
        /\ InsertsRunning = {}
        /\ FeedsParsing = {}
        /\ loader.entry > Len(query.Contents)

\* The optimisation SQL is about to run after both feeds had all their inserts done
C28_Witness ==
    /\ pc = "optimise"
    /\ \A g \in InsertIds : loader.inserts[g].pc = "done"
    /\ \A f \in FeedIds : loader.feeds[f].pc = "done"

\* C29: a candidate for which getPossibleMovingSight reported a sight had the closest
\* point of some evaluated instant pair retained as its minimum: the sight is never
\* built from the zero-valued point that lowestInterPoint holds before any is retained.
C29_SightOnlyFromRetainedPoint ==
    (/\ query.kind = "moving"
     /\ pc = "candidate"
     /\ outcomes # <<>>
     /\ Last(outcomes).kind = "sight") =>
        search.lowestInterPoint # ZeroInterPoint

\* The readCsv calls that have added their size and not yet subtracted it
CsvCallsCounted == { r \in FeedIds : loader.calls[r].pc \in {"unmarshalCsv", "defer", "subtract"} }

RECURSIVE CsvBytesOf(_)
CsvBytesOf(readers) ==
    IF readers = {} THEN 0
    ELSE LET r == CHOOSE x \in readers : TRUE
         IN loader.calls[r].currentCsvBytes + CsvBytesOf(readers \ {r})

\* C30: under every interleaving of concurrent readCsv calls usedCsvBytes never
\* exceeds maxCsvBytes; usedCsvBytes is the sum of the sizes of the calls between
\* their addition and their subtraction, each made once (a returned call has
\* subtracted what it added, also when decoding failed, and a call that failed to
\* open its file has added nothing); and usedCsvBytes is 0 once every call has returned.
C30_UsedCsvBytesAccounting ==
    /\ loader.usedCsvBytes <= loader.maxCsvBytes
    /\ loader.usedCsvBytes = CsvBytesOf(CsvCallsCounted)
    /\ \A r \in FeedIds :
         LET call == loader.calls[r]
         IN /\ call.pc \in {"unmarshalCsv", "defer", "subtract"} =>
                  call.added = 1 /\ call.subtracted = 0
            /\ call.pc \in {"Lock", "for", "Sleep"} => call.added = 0 /\ call.subtracted = 0
            /\ call.pc = "returned" =>
                  /\ call.added = (IF call.opened THEN 1 ELSE 0)
                  /\ call.subtracted = call.added
    /\ (\A r \in FeedIds : loader.calls[r].pc \in {"idle", "returned"}) => loader.usedCsvBytes = 0

\* Every call has returned, one of them after it slept until the other call's bytes
\* were subtracted and then failed to decode
C30_Witness ==
    /\ query.kind = "readCsv"
    /\ \A r \in FeedIds : loader.calls[r].pc = "returned" /\ loader.calls[r].reads = MaxReads
    /\ \E r \in FeedIds :
         /\ loader.calls[r].slept
         /\ loader.calls[r].failed
         /\ loader.calls[r].subtracted = 1
    /\ loader.maxCsvBytes = MaxCsvBytes

=============================================================================
